---- MODULE Spec2Model ----
(***************************************************************************)
(* A model of the integration-test harness of crm-driver-service           *)
(* (python-integration-tests): the resource ledger (the test_drivers        *)
(* fixture and cleanup_test_data), the bus event tests (test_nats_events)   *)
(* and the WebSocket message collector (test_websocket).                    *)
(*                                                                         *)
(* The service under test, the database, the bus and the socket server are  *)
(* the environment: every outcome they can produce is a nondeterministic    *)
(* choice of the action that observes it.                                   *)
(***************************************************************************)
EXTENDS Integers, Sequences, FiniteSets, TLC

VARIABLES
    \* ---- resource ledger (conftest.py, utils/helpers.py) ----
    cleanup_after_test, \* config.cleanup_after_test
    unit,               \* which fixtures / body the test unit uses
    lpc,                \* position of the test unit
    driver_ids,         \* the list yielded by the test_drivers fixture
    db,                 \* committed rows: table name -> set of driver ids
    confirmed,          \* ids the service answered 201 for in this unit
    nextId,             \* next driver id the service hands out
    loop_i,             \* iterations done by the multiple_drivers loop
    outcome,            \* "none" | "passed" | "failed" | "error"
    ledgerSetUp,        \* the test_drivers fixture has yielded
    teardownRuns,       \* times the code after the yield ran
    cleanupCalls,       \* times cleanup_test_data was called
    stmt,               \* index of the next DELETE statement
    attempted,          \* indexes of the DELETE statements executed
    txDone,             \* tables deleted from in the open transaction
    cleanup_log,        \* what cleanup_test_data logged
    skip_cleanup,       \* the --skip-cleanup option of the command line
    \* ---- bus event tests (tests/test_nats_events.py) ----
    scenario,           \* which test of TestNATSEvents runs
    bpc,                \* position of the test coroutine
    outq,               \* commands written to the connection, not yet at the server
    serverSub,          \* the server knows the subscription
    ponged,             \* the PONG of the last PING is back
    inflight,           \* messages routed to the subscription, not yet handled
    received_events,    \* the list the handler appends to
    capturedPre,        \* per collected event: was it handled before the action
    flushes,            \* completed flush() calls
    published,          \* publishes done by the pub/sub tests
    actionStarted,      \* the action of the test has been issued
    flushedBeforeAction, \* a flush had completed when the action was issued
    location_data,      \* the payload of the location action
    servicePending,     \* the event of the action, not yet published
    ownPublished,       \* the service has published the event of the action
    foreignSent,        \* events of other units routed so far
    elapsed,            \* ticks slept since the action
    matchTick,          \* tick at which the action's own event was handled, -1 if not
    matched,            \* the filtered list the test computes
    event,              \* the event the test asserts on
    eventIndex,         \* its index in received_events, 0 if none
    busOutcome,         \* "none" | "passed" | "failed"
    collectedAt,        \* tick at which the test computed its list, -1 before
    handler_errors,     \* exceptions that left a handler, as the client's error callback got them
    \* ---- WebSocket collector (tests/test_websocket.py) ----
    wpc,                \* position of the test coroutine
    session,            \* CONNECTING | OPEN | CLOSED | FAILED
    collector,          \* none | pending | waiting | exited | crashed | cancelled
    idle,               \* ticks the collector's current wait_for has waited
    wElapsed,           \* ticks slept in the current sleep of the test
    wsbuf,              \* frames that arrived and were not yet returned by recv
    received_messages,  \* the list the collector appends to
    delivered,          \* decodable frames the server pushed in the window
    framesSent,         \* frames the server pushed so far
    location_messages,  \* the filtered list the test computes
    wsOutcome,          \* "none" | "passed" | "failed" | "skipped"
    \* ---- WebSocket sessions of the multi-connection tests (tests/test_websocket.py) ----
    wtest,              \* which test runs
    mpc,                \* position of the test coroutine
    cur,                \* the session the test is at, or its index in the finally loop
    conn_state,         \* session -> NONE | CONNECTING | OPEN | CLOSING | CLOSED | FAILED
    conn_error,         \* session -> how its connect failed, "none" if it did not
    connections,        \* the list connections of the test
    successful_connections, \* the list of the open connections the test computes
    attempts,           \* session -> connects started for it
    sent,               \* session -> frames written on it
    awaiting,           \* the session whose close() the test waits for, 0 if none
    resume,             \* what the test does after that close()
    mOutcome,           \* "none" | "passed" | "failed" | "skipped"
    \* ---- readiness probers (utils/helpers.py, tests/test_grpc_api.py) ----
    prober,             \* which prober was called
    p_timeout,          \* its timeout argument, in seconds
    upAt,               \* the second from which the dependency answers successfully
    ppc,                \* position in the prober
    now,                \* seconds since start_time
    probes,             \* probes done
    successes,          \* probes that succeeded
    last_probe,         \* how the latest probe ended
    last_log,           \* the level of the latest log call of the prober
    blocked,            \* some probe was left unanswered until its timeout
    p_result,           \* "running" | "true" | "false" | "raised"
    \* ---- readiness gate of a session (conftest.py) ----
    g_units,            \* the test units of the session, in order
    g_idx,              \* the unit being run
    gpc,                \* position of pytest in that unit
    services_ready,     \* wait_for_services: "none" (not run) | "true" | "false"
    contacts,           \* what the units opened or sent on, with the gate at that time
    g_outcomes,         \* the outcomes of the units run so far
    g_probes,           \* the probers wait_for_services called, in order, with their results
    http_session,       \* the requests.Session of http_client: none | open | closed
    session_closes,     \* calls of session.close()
    \* ---- two subscriptions on one connection (tests/test_nats_events.py) ----
    opc,                \* position of the unit
    nc,                 \* DISCONNECTED | CONNECTED | RECONNECTING | CLOSED
    closes,             \* calls of nc.close()
    ord_i,              \* passes of the loop of the test done
    o_known,            \* the subjects the server knows a subscription of
    o_pending,          \* subject -> messages routed and not yet handled
    o_routed,           \* subject -> messages routed so far
    events,             \* the list event_collector appends to
    o_outcome,          \* "none" | "passed" | "failed" | "error" | "skipped"
    \* ---- fixture factory and action triggers (utils/helpers.py) ----
    trigger,            \* which trigger is called
    draw,               \* what the random source hands to the call
    t_pc,               \* position in the trigger
    payload,            \* the generated payload
    response,           \* the answer of the service
    t_posts,            \* POST requests issued by the call
    t_out,              \* how the call ended, and with what
    \* ---- location payload generators called with arguments (utils/helpers.py) ----
    generator,          \* which generator is called
    b_count,            \* the count argument
    b_kwargs,           \* the keyword arguments: name -> value
    b_draws,            \* what the random source hands to each element
    b_pc,               \* position in the generator
    b_clock,            \* int(time.time()) at this point
    b_called_at,        \* int(time.time()) when the call began
    base_time,          \* base_time of the batch
    b_i,                \* passes of the loop done
    locations           \* the list the call builds and returns

ledgerVars == <<cleanup_after_test, unit, lpc, driver_ids, db, confirmed, nextId,
                loop_i, outcome, ledgerSetUp, teardownRuns, cleanupCalls, stmt,
                attempted, txDone, cleanup_log, skip_cleanup>>

busVars == <<scenario, bpc, outq, serverSub, ponged, inflight, received_events,
             capturedPre, flushes, published, actionStarted, flushedBeforeAction,
             location_data, servicePending, ownPublished, foreignSent, elapsed,
             matchTick, matched, event, eventIndex, busOutcome, collectedAt,
             handler_errors>>

wsVars == <<wpc, session, collector, idle, wElapsed, wsbuf, received_messages,
            delivered, framesSent, location_messages, wsOutcome>>

sessVars == <<wtest, mpc, cur, conn_state, conn_error, connections,
              successful_connections, attempts, sent, awaiting, resume, mOutcome>>

probeVars == <<prober, p_timeout, upAt, ppc, now, probes, successes, last_probe,
               last_log, blocked, p_result>>

gateVars == <<g_units, g_idx, gpc, services_ready, contacts, g_outcomes,
              g_probes, http_session, session_closes>>

ordVars == <<opc, nc, closes, ord_i, o_known, o_pending, o_routed, events,
             o_outcome>>

trigVars == <<trigger, draw, t_pc, payload, response, t_posts, t_out>>

batchVars == <<generator, b_count, b_kwargs, b_draws, b_pc, b_clock, b_called_at,
               base_time, b_i, locations>>

vars == <<ledgerVars, busVars, wsVars, sessVars, probeVars, gateVars, ordVars,
          trigVars, batchVars>>

nonLedgerVars ==
    <<busVars, wsVars, sessVars, probeVars, gateVars, ordVars, trigVars,
      batchVars>>
nonBusVars ==
    <<ledgerVars, wsVars, sessVars, probeVars, gateVars, ordVars, trigVars,
      batchVars>>
nonWsVars ==
    <<ledgerVars, busVars, sessVars, probeVars, gateVars, ordVars, trigVars,
      batchVars>>
nonSessVars ==
    <<ledgerVars, busVars, wsVars, probeVars, gateVars, ordVars, trigVars,
      batchVars>>
nonProbeVars ==
    <<ledgerVars, busVars, wsVars, sessVars, gateVars, ordVars, trigVars,
      batchVars>>
nonOrdVars ==
    <<ledgerVars, busVars, wsVars, sessVars, probeVars, gateVars, trigVars,
      batchVars>>
nonTrigVars ==
    <<ledgerVars, busVars, wsVars, sessVars, probeVars, gateVars, ordVars,
      batchVars>>
nonBatchVars ==
    <<ledgerVars, busVars, wsVars, sessVars, probeVars, gateVars, ordVars,
      trigVars>>
nonGateVars ==
    <<ledgerVars, busVars, wsVars, sessVars, probeVars, ordVars, trigVars,
      batchVars>>

(***************************************************************************)
(* Resource ledger                                                         *)
(***************************************************************************)

\* range(5) in the multiple_drivers fixture
MultipleCount == 5

\* The drivers of other test units, present in the shared database.
ForeignDrivers == {0}

\* A cleanup that deletes the drivers first.
TablesDriversFirst == <<"drivers", "driver_ratings", "driver_locations",
                        "driver_shifts", "driver_documents">>

\* The tables cleanup_test_data deletes from, in its order: the list tables of
\* the branch with ids, and the five statements of the branch without.
Tables == <<"driver_ratings", "driver_locations", "driver_shifts",
            "driver_documents", "drivers">>

TableNames == {Tables[i] : i \in DOMAIN Tables}

\* The test units of the suite, by the fixtures they request and what the
\* body does with the ledger.
Units == {"created_driver", "multiple_drivers", "driver_with_location",
          "direct_post", "delete_driver", "duplicate_post"}

\* What the service can answer to POST /api/v1/drivers.
PostOutcomes == {"201_valid", "201_invalid", "rejected"}

\* What the service can answer to POST /api/v1/drivers/{id}/locations.
LocationOutcomes == {"200_valid", "200_invalid", "rejected"}

\* create_test_driver: the POST, assert_status_code(201), then
\* assert_driver_data_valid; the driver exists as soon as the service
\* answered 201, the id is returned only if both assertions passed.
create_test_driver(r) ==
    [created |-> r \in {"201_valid", "201_invalid"},
     raised  |-> r # "201_valid"]

\* update_driver_location: the POST, assert_status_code(200), then
\* assert_location_data_valid.
update_driver_location(r) ==
    [stored |-> r \in {"200_valid", "200_invalid"},
     raised |-> r # "200_valid"]

AddRow(d, table, id) == [d EXCEPT ![table] = @ \cup {id}]

InitLedger ==
    /\ cleanup_after_test \in BOOLEAN
    /\ skip_cleanup \in BOOLEAN
    /\ unit \in Units
    /\ lpc = "session"
    /\ driver_ids = <<>>
    /\ db = [t \in TableNames |->
                IF t \in {"drivers", "driver_locations"} THEN ForeignDrivers ELSE {}]
    /\ confirmed = {}
    /\ nextId = 1
    /\ loop_i = 0
    /\ outcome = "none"
    /\ ledgerSetUp = FALSE
    /\ teardownRuns = 0
    /\ cleanupCalls = 0
    /\ stmt = 0
    /\ attempted = {}
    /\ txDone = {}
    /\ cleanup_log = <<>>

\* The session fixtures wait_for_services and http_client, which every unit
\* with a ledger requests: a failed readiness assertion is an error at setup,
\* before test_drivers is instantiated.
SetupSession ==
    /\ lpc = "session"
    /\ \E ready \in BOOLEAN :
          IF ready
          THEN /\ lpc' = "ledger"
               /\ UNCHANGED outcome
          ELSE /\ lpc' = "done"
               /\ outcome' = "error"
    /\ UNCHANGED <<cleanup_after_test, unit, driver_ids, db, confirmed, nextId,
                   loop_i, ledgerSetUp, teardownRuns, cleanupCalls, stmt,
                   attempted, txDone, cleanup_log>>
    /\ UNCHANGED skip_cleanup
    /\ UNCHANGED nonLedgerVars

\* test_drivers up to its yield.
SetupLedger ==
    /\ lpc = "ledger"
    /\ driver_ids' = <<>>
    /\ ledgerSetUp' = TRUE
    /\ lpc' = IF unit \in {"direct_post", "delete_driver"} THEN "body" ELSE "fixture"
    /\ UNCHANGED <<cleanup_after_test, unit, db, confirmed, nextId, loop_i,
                   outcome, teardownRuns, cleanupCalls, stmt, attempted, txDone,
                   cleanup_log>>
    /\ UNCHANGED skip_cleanup
    /\ UNCHANGED nonLedgerVars

\* created_driver (also requested by the duplicate_post unit).
SetupCreatedDriver ==
    /\ lpc = "fixture"
    /\ unit \in {"created_driver", "duplicate_post"}
    /\ \E r \in PostOutcomes :
          LET c == create_test_driver(r) IN
          /\ db' = IF c.created THEN AddRow(db, "drivers", nextId) ELSE db
          /\ confirmed' = IF c.created THEN confirmed \cup {nextId} ELSE confirmed
          /\ nextId' = IF c.created THEN nextId + 1 ELSE nextId
          /\ IF c.raised
             THEN /\ outcome' = "error"
                  /\ lpc' = "teardown"
                  /\ UNCHANGED driver_ids
             ELSE /\ driver_ids' = Append(driver_ids, nextId)
                  /\ lpc' = "body"
                  /\ UNCHANGED outcome
    /\ UNCHANGED <<cleanup_after_test, unit, loop_i, ledgerSetUp, teardownRuns,
                   cleanupCalls, stmt, attempted, txDone, cleanup_log>>
    /\ UNCHANGED skip_cleanup
    /\ UNCHANGED nonLedgerVars

\* One iteration of the loop of multiple_drivers.
SetupMultipleDrivers ==
    /\ lpc = "fixture"
    /\ unit = "multiple_drivers"
    /\ loop_i < MultipleCount
    /\ \E r \in PostOutcomes :
          LET c == create_test_driver(r) IN
          /\ db' = IF c.created THEN AddRow(db, "drivers", nextId) ELSE db
          /\ confirmed' = IF c.created THEN confirmed \cup {nextId} ELSE confirmed
          /\ nextId' = IF c.created THEN nextId + 1 ELSE nextId
          /\ IF c.raised
             THEN /\ outcome' = "error"
                  /\ lpc' = "teardown"
                  /\ UNCHANGED <<driver_ids, loop_i>>
             ELSE /\ driver_ids' = Append(driver_ids, nextId)
                  /\ loop_i' = loop_i + 1
                  /\ lpc' = IF loop_i + 1 = MultipleCount THEN "body" ELSE "fixture"
                  /\ UNCHANGED outcome
    /\ UNCHANGED <<cleanup_after_test, unit, ledgerSetUp, teardownRuns,
                   cleanupCalls, stmt, attempted, txDone, cleanup_log>>
    /\ UNCHANGED skip_cleanup
    /\ UNCHANGED nonLedgerVars

\* driver_with_location: the driver is tracked before its location is added.
SetupDriverWithLocation ==
    /\ lpc = "fixture"
    /\ unit = "driver_with_location"
    /\ \E r \in PostOutcomes, r2 \in LocationOutcomes :
          LET c == create_test_driver(r)
              u == update_driver_location(r2) IN
          /\ confirmed' = IF c.created THEN confirmed \cup {nextId} ELSE confirmed
          /\ nextId' = IF c.created THEN nextId + 1 ELSE nextId
          /\ IF c.raised
             THEN /\ db' = IF c.created THEN AddRow(db, "drivers", nextId) ELSE db
                  /\ outcome' = "error"
                  /\ lpc' = "teardown"
                  /\ UNCHANGED driver_ids
             ELSE /\ driver_ids' = Append(driver_ids, nextId)
                  /\ db' = IF u.stored
                           THEN AddRow(AddRow(db, "drivers", nextId),
                                       "driver_locations", nextId)
                           ELSE AddRow(db, "drivers", nextId)
                  /\ IF u.raised
                     THEN /\ outcome' = "error"
                          /\ lpc' = "teardown"
                     ELSE /\ lpc' = "body"
                          /\ UNCHANGED outcome
    /\ UNCHANGED <<cleanup_after_test, unit, loop_i, ledgerSetUp, teardownRuns,
                   cleanupCalls, stmt, attempted, txDone, cleanup_log>>
    /\ UNCHANGED skip_cleanup
    /\ UNCHANGED nonLedgerVars

\* test_create_driver_success: the body posts, asserts 201, tracks the id and
\* only then validates the answer.
BodyDirectPost ==
    /\ lpc = "body"
    /\ unit = "direct_post"
    /\ driver_ids = <<>>
    /\ \E r \in PostOutcomes :
          /\ IF r = "rejected"
             THEN /\ outcome' = "failed"
                  /\ lpc' = "teardown"
                  /\ UNCHANGED <<db, confirmed, nextId, driver_ids>>
             ELSE /\ db' = AddRow(db, "drivers", nextId)
                  /\ confirmed' = confirmed \cup {nextId}
                  /\ nextId' = nextId + 1
                  /\ driver_ids' = Append(driver_ids, nextId)
                  /\ IF r = "201_invalid"
                     THEN /\ outcome' = "failed"
                          /\ lpc' = "teardown"
                     ELSE UNCHANGED <<outcome, lpc>>
    /\ UNCHANGED <<cleanup_after_test, unit, loop_i, ledgerSetUp, teardownRuns,
                   cleanupCalls, stmt, attempted, txDone, cleanup_log>>
    /\ UNCHANGED skip_cleanup
    /\ UNCHANGED nonLedgerVars

\* test_delete_driver_success, first half: create_test_driver in the body,
\* then test_drivers.append.
BodyHelperCreate ==
    /\ lpc = "body"
    /\ unit = "delete_driver"
    /\ driver_ids = <<>>
    /\ \E r \in PostOutcomes :
          LET c == create_test_driver(r) IN
          /\ db' = IF c.created THEN AddRow(db, "drivers", nextId) ELSE db
          /\ confirmed' = IF c.created THEN confirmed \cup {nextId} ELSE confirmed
          /\ nextId' = IF c.created THEN nextId + 1 ELSE nextId
          /\ IF c.raised
             THEN /\ outcome' = "failed"
                  /\ lpc' = "teardown"
                  /\ UNCHANGED driver_ids
             ELSE /\ driver_ids' = Append(driver_ids, nextId)
                  /\ UNCHANGED <<outcome, lpc>>
    /\ UNCHANGED <<cleanup_after_test, unit, loop_i, ledgerSetUp, teardownRuns,
                   cleanupCalls, stmt, attempted, txDone, cleanup_log>>
    /\ UNCHANGED skip_cleanup
    /\ UNCHANGED nonLedgerVars

\* test_delete_driver_success, second half: DELETE /api/v1/drivers/{id},
\* which the service answers 204 (row removed) or otherwise (assertion fails).
BodyDeleteDriver ==
    /\ lpc = "body"
    /\ unit = "delete_driver"
    /\ Len(driver_ids) = 1
    /\ driver_ids[1] \in db["drivers"]
    /\ \E ok \in BOOLEAN :
          IF ok
          THEN /\ db' = [db EXCEPT !["drivers"] = @ \ {driver_ids[1]}]
               /\ UNCHANGED <<outcome, lpc>>
          ELSE /\ outcome' = "failed"
               /\ lpc' = "teardown"
               /\ UNCHANGED db
    /\ UNCHANGED <<cleanup_after_test, unit, driver_ids, confirmed, nextId, loop_i,
                   ledgerSetUp, teardownRuns, cleanupCalls, stmt, attempted,
                   txDone, cleanup_log>>
    /\ UNCHANGED skip_cleanup
    /\ UNCHANGED nonLedgerVars

\* test_create_duplicate_driver: a POST with the phone of created_driver,
\* expected to be answered 409; the answer is never tracked.
BodyDuplicatePost ==
    /\ lpc = "body"
    /\ unit = "duplicate_post"
    /\ \E r \in PostOutcomes :
          IF r = "rejected"
          THEN /\ outcome' = "passed"
               /\ UNCHANGED <<db, confirmed, nextId>>
          ELSE /\ db' = AddRow(db, "drivers", nextId)
               /\ confirmed' = confirmed \cup {nextId}
               /\ nextId' = nextId + 1
               /\ outcome' = "failed"
    /\ lpc' = "teardown"
    /\ UNCHANGED <<cleanup_after_test, unit, driver_ids, loop_i, ledgerSetUp,
                   teardownRuns, cleanupCalls, stmt, attempted, txDone, cleanup_log>>
    /\ UNCHANGED skip_cleanup
    /\ UNCHANGED nonLedgerVars

\* The rest of a body: it returns, or an assertion in it raises.
BodyEnd ==
    /\ lpc = "body"
    /\ unit # "duplicate_post"
    /\ unit = "direct_post" => driver_ids # <<>>
    /\ unit = "delete_driver" => driver_ids # <<>>
    /\ outcome' \in {"passed", "failed"}
    /\ lpc' = "teardown"
    /\ UNCHANGED <<cleanup_after_test, unit, driver_ids, db, confirmed, nextId,
                   loop_i, ledgerSetUp, teardownRuns, cleanupCalls, stmt, attempted,
                   txDone, cleanup_log>>
    /\ UNCHANGED skip_cleanup
    /\ UNCHANGED nonLedgerVars

\* A cleanup written at the end of the unit instead of after a yield: it is
\* skipped when the unit raised.
FinalizerRunsOnlyOnPass(o) == o = "passed"

\* A generator fixture that has yielded is resumed after the unit whatever the
\* unit's outcome: passed, failed in the body, or error in a later setup.
FinalizerRuns(o) == o \in {"passed", "failed", "error"}

\* A release that calls cleanup_test_data whenever cleanup is enabled, also
\* with an empty list.
ReleaseWheneverEnabled(flag, ids) == flag

\* A release that also honours the --skip-cleanup option.
ReleaseUnlessSkipped(flag, ids) == flag /\ ids # <<>> /\ ~skip_cleanup

\* if config.cleanup_after_test and driver_ids:
ShouldRelease(flag, ids) == flag /\ ids # <<>>

\* The rows cleanup_test_data deletes: with a list that is not empty ('if
\* driver_ids:') the rows of the ids in it; otherwise the rows of every driver
\* whose email looks like a test's, which the drivers of all units do.
CleanupTargets(ids, d) ==
    IF ids # <<>> THEN {ids[i] : i \in DOMAIN ids} ELSE d["drivers"]

\* test_drivers after its yield.
Teardown ==
    /\ lpc = "teardown"
    /\ IF FinalizerRuns(outcome)
       THEN /\ teardownRuns' = teardownRuns + 1
            /\ IF ShouldRelease(cleanup_after_test, driver_ids)
               THEN /\ cleanupCalls' = cleanupCalls + 1
                    /\ lpc' = "connect"
               ELSE /\ lpc' = "done"
                    /\ UNCHANGED cleanupCalls
       ELSE /\ lpc' = "done"
            /\ UNCHANGED <<teardownRuns, cleanupCalls>>
    /\ UNCHANGED <<cleanup_after_test, unit, driver_ids, db, confirmed, nextId,
                   loop_i, outcome, ledgerSetUp, stmt, attempted, txDone, cleanup_log>>
    /\ UNCHANGED skip_cleanup
    /\ UNCHANGED nonLedgerVars

\* What the steps of cleanup_test_data raise when they fail: psycopg2.connect
\* an OperationalError, a statement or the commit another psycopg2 error.
CleanupExceptionAt(site) ==
    IF site = "connect" THEN "OperationalError" ELSE "DatabaseError"

\* An except clause that names only psycopg2.OperationalError.
except_OperationalError(exc) == exc = "OperationalError"

\* except Exception as e: the clause of cleanup_test_data; every error
\* psycopg2 raises is an Exception.
except_Exception(exc) == exc \in {"OperationalError", "DatabaseError"}

\* The outcome of the unit after cleanup_test_data failed at site: as it was
\* if the except clause caught the exception, else the exception leaves the
\* teardown of test_drivers and pytest reports an error.
OutcomeAfterCleanupFailure(o, site) ==
    IF except_Exception(CleanupExceptionAt(site)) THEN o ELSE "error"

\* logger.error(f"Failed to cleanup test data: {e}") in the except clause.
LogCleanupFailure(log, site) ==
    IF except_Exception(CleanupExceptionAt(site))
    THEN Append(log, [level |-> "error", at |-> site])
    ELSE log

\* The committed rows after the deletes on the given tables took effect.
ApplyDeletes(d, tables, targets) ==
    [t \in TableNames |-> IF t \in tables THEN d[t] \ targets ELSE d[t]]

\* A connection in autocommit mode: every statement that returned has taken
\* effect.
PersistedAutocommit(tx, committed) == tx

\* The tables whose deletes take effect when cleanup_test_data is left: a
\* psycopg2 connection opens a transaction with the first statement, and the
\* deletes of a transaction that is not committed are dropped with the
\* connection.
Persisted(tx, committed) == IF committed THEN tx ELSE {}

\* cleanup_test_data: psycopg2.connect, inside the one try block.
CleanupConnect ==
    /\ lpc = "connect"
    /\ \E ok \in BOOLEAN :
          IF ok
          THEN /\ lpc' = "execute"
               /\ stmt' = 1
               /\ UNCHANGED <<cleanup_log, outcome>>
          ELSE /\ lpc' = "done"
               /\ cleanup_log' = LogCleanupFailure(cleanup_log, "connect")
               /\ outcome' = OutcomeAfterCleanupFailure(outcome, "connect")
               /\ UNCHANGED stmt
    /\ UNCHANGED <<cleanup_after_test, unit, driver_ids, db, confirmed, nextId,
                   loop_i, ledgerSetUp, teardownRuns, cleanupCalls,
                   attempted, txDone>>
    /\ UNCHANGED skip_cleanup
    /\ UNCHANGED nonLedgerVars

\* A delete that raises when one of the ids has no row in the table.
DeleteRequiresMatch(rows, targets) ==
    IF targets \subseteq rows THEN BOOLEAN ELSE {FALSE}

\* cur.execute("DELETE FROM ... WHERE driver_id IN (...)"): the statement
\* returns, however many rows it matched (the code does not look at
\* cur.rowcount), or the server or the connection makes it raise.
DeleteOutcomes(rows, targets) == BOOLEAN

\* cleanup_test_data: one DELETE ... WHERE driver_id IN (ids) of the loop over
\* the tables; a statement that raises leaves the loop for the except clause,
\* and the transaction is never committed.
CleanupExecute ==
    /\ lpc = "execute"
    /\ attempted' = attempted \cup {stmt}
    /\ \E ok \in DeleteOutcomes(db[Tables[stmt]], CleanupTargets(driver_ids, db)) :
          IF ok
          THEN /\ txDone' = txDone \cup {Tables[stmt]}
               /\ IF stmt = Len(Tables)
                  THEN /\ lpc' = "commit"
                       /\ UNCHANGED stmt
                  ELSE /\ stmt' = stmt + 1
                       /\ UNCHANGED lpc
               /\ UNCHANGED <<cleanup_log, outcome, db>>
          ELSE /\ txDone' = {}
               /\ db' = ApplyDeletes(db, Persisted(txDone, FALSE),
                                     CleanupTargets(driver_ids, db))
               /\ lpc' = "done"
               /\ cleanup_log' = LogCleanupFailure(cleanup_log, Tables[stmt])
               /\ outcome' = OutcomeAfterCleanupFailure(outcome, Tables[stmt])
               /\ UNCHANGED stmt
    /\ UNCHANGED <<cleanup_after_test, unit, driver_ids, confirmed, nextId,
                   loop_i, ledgerSetUp, teardownRuns, cleanupCalls>>
    /\ UNCHANGED skip_cleanup
    /\ UNCHANGED nonLedgerVars

Tracked == {driver_ids[i] : i \in DOMAIN driver_ids}

\* cleanup_test_data: conn.commit(), conn.close() and the info line.
CleanupCommit ==
    /\ lpc = "commit"
    /\ \E ok \in BOOLEAN :
          /\ db' = ApplyDeletes(db, Persisted(txDone, ok),
                                CleanupTargets(driver_ids, db))
          /\ IF ok
             THEN /\ cleanup_log' = Append(cleanup_log, [level |-> "info", at |-> "done"])
                  /\ UNCHANGED outcome
             ELSE /\ cleanup_log' = LogCleanupFailure(cleanup_log, "commit")
                  /\ outcome' = OutcomeAfterCleanupFailure(outcome, "commit")
    /\ txDone' = {}
    /\ lpc' = "done"
    /\ UNCHANGED <<cleanup_after_test, unit, driver_ids, confirmed, nextId, loop_i,
                   ledgerSetUp, teardownRuns, cleanupCalls, stmt, attempted>>
    /\ UNCHANGED skip_cleanup
    /\ UNCHANGED nonLedgerVars


\* Calls of cleanup_test_data by one caller, one after the other.
CleanupRuns == 2

\* Drivers that have rows when cleanup_test_data is called directly.
StoredDrivers == {0, 1, 2}

\* The argument of a direct call: None or an empty list, one id, two ids, and
\* a list with an id that has no row (3).
CleanupArguments == {<<>>, <<1>>, <<2, 1>>, <<1, 3>>}

\* cleanup_test_data(driver_ids) called on its own, on a database in which
\* every dependent row references a driver that has a row.
InitCleanupCall ==
    /\ cleanup_after_test = TRUE
    /\ skip_cleanup = FALSE
    /\ unit = "created_driver"
    /\ lpc = "connect"
    /\ driver_ids \in CleanupArguments
    /\ \E drivers \in SUBSET StoredDrivers :
          db \in {d \in [TableNames -> {{}, drivers}] : d["drivers"] = drivers}
    /\ confirmed = {}
    /\ nextId = 1
    /\ loop_i = 0
    /\ outcome = "none"
    /\ ledgerSetUp = FALSE
    /\ teardownRuns = 0
    /\ cleanupCalls = 1
    /\ stmt = 0
    /\ attempted = {}
    /\ txDone = {}
    /\ cleanup_log = <<>>

\* The caller calls cleanup_test_data again, with the same argument.
CleanupAgain ==
    /\ lpc = "done"
    /\ cleanupCalls < CleanupRuns
    /\ cleanupCalls' = cleanupCalls + 1
    /\ lpc' = "connect"
    /\ stmt' = 0
    /\ attempted' = {}
    /\ UNCHANGED <<cleanup_after_test, unit, driver_ids, db, confirmed, nextId,
                   loop_i, outcome, ledgerSetUp, teardownRuns, txDone, cleanup_log>>
    /\ UNCHANGED skip_cleanup
    /\ UNCHANGED nonLedgerVars

\* The ledger of a unit that is not running.
IdleLedger ==
    /\ cleanup_after_test = TRUE
    /\ skip_cleanup = FALSE
    /\ unit = "created_driver"
    /\ lpc = "done"
    /\ driver_ids = <<>>
    /\ db = [t \in TableNames |-> {}]
    /\ confirmed = {}
    /\ nextId = 1
    /\ loop_i = 0
    /\ outcome = "none"
    /\ ledgerSetUp = FALSE
    /\ teardownRuns = 0
    /\ cleanupCalls = 0
    /\ stmt = 0
    /\ attempted = {}
    /\ txDone = {}
    /\ cleanup_log = <<>>

(***************************************************************************)
(* Bus event tests (tests/test_nats_events.py)                             *)
(*                                                                         *)
(* One connection to the bus: the commands the client has written (SUB,     *)
(* PUB, PING) reach the server in order; flush() writes a PING and returns  *)
(* when its PONG is back. The service publishes its events on a connection  *)
(* of its own, and so do the other test units.                              *)
(***************************************************************************)

\* Ticks the model divides half a second into.
TicksPerHalfSecond == 1

\* Messages other test units put on the subscribed subject during the unit.
MaxForeign == 1

\* Coordinates a location payload can carry.
MaxCoord == 2

\* range(5) in test_nats_subscription_durability
DurablePublishes == 5

Coords == 1..MaxCoord

\* The driver of the unit (created_driver['id']) and a driver of another unit.
OwnDriver == "own"
OtherDriver == "other"

BusScenarios == {"registered", "status", "location", "connection", "durability"}

EventScenarios == {"registered", "status", "location"}

\* The event_type the test filters on.
EventTypeOf(s) ==
    CASE s = "registered" -> "driver_registered"
      [] s = "status"     -> "driver_status_changed"
      [] s = "location"   -> "driver_location_updated"
      [] OTHER            -> "raw"

\* A message on the bus. kind "json" decodes to the mapping of its fields,
\* "malformed" is text that is not JSON, "not_utf8" is bytes that are not
\* UTF-8, "raw" is the text the pub/sub tests publish.
Msg(k, t, d, la, lo) ==
    [kind |-> k, event_type |-> t, driver_id |-> d, latitude |-> la, longitude |-> lo]

NoEvent == Msg("none", "none", "nobody", 0, 0)

RawMsg == Msg("raw", "raw", "nobody", 0, 0)

\* The payloads neither msg.data.decode() nor json.loads can turn into an event.
Undecodable == {"malformed", "not_utf8"}

\* event_handler: msg.data.decode(), json.loads, append; a JSONDecodeError is
\* passed over.
event_handler(evs, msg) ==
    IF msg.kind \in Undecodable THEN evs ELSE Append(evs, msg)

\* The exceptions the except clause of event_handler names: json.loads raises
\* JSONDecodeError on text that is not JSON; msg.data.decode() raises
\* UnicodeDecodeError on bytes that are not UTF-8, which the clause does not
\* name.
event_handler_raises(msg) == msg.kind = "not_utf8"

\* message_handler: append the decoded text.
message_handler(evs, msg) == Append(evs, msg)

Handle(s, evs, msg) ==
    IF s \in EventScenarios THEN event_handler(evs, msg) ELSE message_handler(evs, msg)

\* The handler of scenario s ends with an exception on msg; the client's
\* reader of the subscription hands it to the error callback and goes on to
\* the next message.
HandlerRaises(s, msg) == s \in EventScenarios /\ event_handler_raises(msg)

\* [e for e in received_events if e.get('event_type') == <type>]
FilterByType(evs, t) == SelectSeq(evs, LAMBDA e : e.event_type = t)

\* The argument of the asyncio.sleep that follows the action, in ticks:
\* 0.5 s in test_nats_connection, 1.0 s elsewhere.
SettleTicks(s) ==
    IF s = "connection" THEN TicksPerHalfSecond ELSE 2 * TicksPerHalfSecond

\* A wait that returns at the first event of the type.
SleepOverOnMatch(s, e, evs) ==
    e = SettleTicks(s) \/ FilterByType(evs, EventTypeOf(s)) # <<>>

\* await asyncio.sleep(t): over when t has elapsed, whatever arrived meanwhile.
SleepOver(s, e, evs) == e = SettleTicks(s)

\* The number of publishes of the pub/sub tests.
PublishesOf(s) == IF s = "durability" THEN DurablePublishes ELSE 1

InitBus ==
    /\ scenario \in BusScenarios
    /\ bpc = "subscribe"
    /\ outq = <<>>
    /\ serverSub = FALSE
    /\ ponged = FALSE
    /\ inflight = <<>>
    /\ received_events = <<>>
    /\ capturedPre = <<>>
    /\ flushes = 0
    /\ published = 0
    /\ actionStarted = FALSE
    /\ flushedBeforeAction = FALSE
    /\ location_data = [latitude |-> 0, longitude |-> 0]
    /\ servicePending = NoEvent
    /\ ownPublished = FALSE
    /\ foreignSent = 0
    /\ elapsed = 0
    /\ matchTick = -1
    /\ matched = <<>>
    /\ event = NoEvent
    /\ eventIndex = 0
    /\ busOutcome = "none"
    /\ collectedAt = -1
    /\ handler_errors = <<>>

IdleBus ==
    /\ scenario = "registered"
    /\ bpc = "done"
    /\ outq = <<>>
    /\ serverSub = FALSE
    /\ ponged = FALSE
    /\ inflight = <<>>
    /\ received_events = <<>>
    /\ capturedPre = <<>>
    /\ flushes = 0
    /\ published = 0
    /\ actionStarted = FALSE
    /\ flushedBeforeAction = FALSE
    /\ location_data = [latitude |-> 0, longitude |-> 0]
    /\ servicePending = NoEvent
    /\ ownPublished = FALSE
    /\ foreignSent = 0
    /\ elapsed = 0
    /\ matchTick = -1
    /\ matched = <<>>
    /\ event = NoEvent
    /\ eventIndex = 0
    /\ busOutcome = "none"
    /\ collectedAt = -1
    /\ handler_errors = <<>>

\* await nats_client.subscribe(subject, cb=handler): the SUB is written to the
\* connection; the call does not wait for the server.
Subscribe ==
    /\ bpc = "subscribe"
    /\ outq' = Append(outq, [op |-> "SUB", msg |-> NoEvent])
    /\ bpc' = IF scenario \in EventScenarios THEN "flush" ELSE "publish"
    /\ UNCHANGED <<scenario, serverSub, ponged, inflight, received_events,
                   capturedPre, flushes, published, actionStarted,
                   flushedBeforeAction, location_data, servicePending,
                   ownPublished, foreignSent, elapsed, matchTick, matched, event,
                   eventIndex, busOutcome, collectedAt>>
    /\ UNCHANGED handler_errors
    /\ UNCHANGED nonBusVars

\* await nats_client.flush(), first half: the PING is written.
FlushStart ==
    /\ bpc = "flush"
    /\ outq' = Append(outq, [op |-> "PING", msg |-> NoEvent])
    /\ ponged' = FALSE
    /\ bpc' = "flush_wait"
    /\ UNCHANGED <<scenario, serverSub, inflight, received_events, capturedPre,
                   flushes, published, actionStarted, flushedBeforeAction,
                   location_data, servicePending, ownPublished, foreignSent,
                   elapsed, matchTick, matched, event, eventIndex, busOutcome, collectedAt>>
    /\ UNCHANGED handler_errors
    /\ UNCHANGED nonBusVars

\* await nats_client.flush(), second half: the PONG is back.
FlushDone ==
    /\ bpc = "flush_wait"
    /\ ponged
    /\ flushes' = flushes + 1
    /\ bpc' = IF scenario \in EventScenarios THEN "action" ELSE "sleep"
    /\ UNCHANGED <<scenario, outq, serverSub, ponged, inflight, received_events,
                   capturedPre, published, actionStarted, flushedBeforeAction,
                   location_data, servicePending, ownPublished, foreignSent,
                   elapsed, matchTick, matched, event, eventIndex, busOutcome, collectedAt>>
    /\ UNCHANGED handler_errors
    /\ UNCHANGED nonBusVars

\* await nats_client.publish(subject, data) of test_nats_connection and of the
\* loop of test_nats_subscription_durability: the action of these tests.
Publish ==
    /\ bpc = "publish"
    /\ outq' = Append(outq, [op |-> "PUB", msg |-> RawMsg])
    /\ published' = published + 1
    /\ actionStarted' = TRUE
    /\ flushedBeforeAction' = IF actionStarted THEN flushedBeforeAction ELSE flushes > 0
    /\ bpc' = IF published + 1 = PublishesOf(scenario) THEN "flush" ELSE "publish"
    /\ UNCHANGED <<scenario, serverSub, ponged, inflight, received_events,
                   capturedPre, flushes, location_data, servicePending,
                   ownPublished, foreignSent, elapsed, matchTick, matched, event,
                   eventIndex, busOutcome, collectedAt>>
    /\ UNCHANGED handler_errors
    /\ UNCHANGED nonBusVars

\* The HTTP call of the event tests (POST /drivers, PATCH .../status,
\* POST .../locations) and the assert on its status code. The call blocks the
\* event loop: no handler runs during it. A service that accepted the call may
\* publish the event of the action later.
HttpAction ==
    /\ bpc = "action"
    /\ actionStarted' = TRUE
    /\ flushedBeforeAction' = (flushes > 0)
    /\ \E la \in Coords, lo \in Coords, accepted \in BOOLEAN :
          /\ scenario # "location" => la = 1 /\ lo = 1
          /\ location_data' = IF scenario = "location"
                              THEN [latitude |-> la, longitude |-> lo]
                              ELSE location_data
          /\ IF accepted
             THEN /\ servicePending' =
                        Msg("json", EventTypeOf(scenario), OwnDriver,
                            location_data'.latitude, location_data'.longitude)
                  /\ bpc' = "sleep"
                  /\ UNCHANGED busOutcome
             ELSE /\ bpc' = "done"
                  /\ busOutcome' = "failed"
                  /\ UNCHANGED servicePending
    /\ UNCHANGED <<scenario, outq, serverSub, ponged, inflight, received_events,
                   capturedPre, flushes, published, ownPublished, foreignSent,
                   elapsed, matchTick, matched, event, eventIndex, collectedAt>>
    /\ UNCHANGED handler_errors
    /\ UNCHANGED nonBusVars

\* The server takes the next command of the connection.
ServerProcess ==
    /\ outq # <<>>
    /\ bpc # "done"
    /\ LET c == Head(outq) IN
          /\ serverSub' = IF c.op = "SUB" THEN TRUE ELSE serverSub
          /\ ponged' = IF c.op = "PING" THEN TRUE ELSE ponged
          /\ inflight' = IF c.op = "PUB" /\ serverSub
                         THEN Append(inflight, c.msg) ELSE inflight
    /\ outq' = Tail(outq)
    /\ UNCHANGED <<scenario, bpc, received_events, capturedPre, flushes, published,
                   actionStarted, flushedBeforeAction, location_data,
                   servicePending, ownPublished, foreignSent, elapsed, matchTick,
                   matched, event, eventIndex, busOutcome, collectedAt>>
    /\ UNCHANGED handler_errors
    /\ UNCHANGED nonBusVars

\* The service publishes the event of the action; the server routes it to the
\* subscriptions it knows at that moment.
ServicePublish ==
    /\ servicePending # NoEvent
    /\ bpc # "done"
    /\ inflight' = IF serverSub THEN Append(inflight, servicePending) ELSE inflight
    /\ servicePending' = NoEvent
    /\ ownPublished' = TRUE
    /\ UNCHANGED <<scenario, bpc, outq, serverSub, ponged, received_events,
                   capturedPre, flushes, published, actionStarted,
                   flushedBeforeAction, location_data, foreignSent,
                   elapsed, matchTick, matched, event, eventIndex, busOutcome, collectedAt>>
    /\ UNCHANGED handler_errors
    /\ UNCHANGED nonBusVars

\* What another unit can put on the subscribed subject: an event of the same
\* type about its own driver, an event of another type, text that is not
\* JSON, or bytes that are not UTF-8.
ForeignMsgs(s) ==
    {Msg("malformed", "none", "nobody", 0, 0), Msg("not_utf8", "none", "nobody", 0, 0),
     Msg("json", "other", OtherDriver, 0, 0)}
    \cup (IF s = "location"
          THEN {Msg("json", EventTypeOf(s), OtherDriver, la, lo) :
                    la \in Coords, lo \in Coords}
          ELSE {Msg("json", EventTypeOf(s), OtherDriver, 0, 0)})

\* Another unit's traffic reaches the server while the subscription is known.
ForeignPublish ==
    /\ scenario \in EventScenarios
    /\ bpc # "done"
    /\ serverSub
    /\ foreignSent < MaxForeign
    /\ \E m \in ForeignMsgs(scenario) : inflight' = Append(inflight, m)
    /\ foreignSent' = foreignSent + 1
    /\ UNCHANGED <<scenario, bpc, outq, serverSub, ponged, received_events,
                   capturedPre, flushes, published, actionStarted,
                   flushedBeforeAction, location_data, servicePending,
                   ownPublished, elapsed, matchTick, matched, event, eventIndex,
                   busOutcome, collectedAt>>
    /\ UNCHANGED handler_errors
    /\ UNCHANGED nonBusVars

\* The event of the unit's own action (or the text the unit published itself).
IsOwn(s, m) ==
    IF s \in EventScenarios
    THEN m.kind = "json" /\ m.event_type = EventTypeOf(s) /\ m.driver_id = OwnDriver
    ELSE m.kind = "raw"

\* The client reads the next message and runs the handler on it. Handlers run
\* only while the test coroutine is suspended in an await: the wait for the
\* PONG of a flush, or the sleep.
Deliver ==
    /\ bpc \in {"flush_wait", "sleep"}
    /\ inflight # <<>>
    /\ LET m == Head(inflight)
           evs == Handle(scenario, received_events, m) IN
          /\ received_events' = evs
          /\ capturedPre' = IF Len(evs) > Len(received_events)
                            THEN Append(capturedPre, ~actionStarted)
                            ELSE capturedPre
          /\ matchTick' = IF matchTick = -1 /\ Len(evs) > Len(received_events)
                             /\ IsOwn(scenario, m)
                          THEN elapsed ELSE matchTick
          /\ handler_errors' = IF HandlerRaises(scenario, m)
                               THEN Append(handler_errors, "UnicodeDecodeError")
                               ELSE handler_errors
    /\ inflight' = Tail(inflight)
    /\ UNCHANGED <<scenario, bpc, outq, serverSub, ponged, flushes, published,
                   actionStarted, flushedBeforeAction, location_data,
                   servicePending, ownPublished, foreignSent, elapsed, matched,
                   event, eventIndex, busOutcome, collectedAt>>
    /\ UNCHANGED nonBusVars

\* Time passes in the sleep after the action.
Tick ==
    /\ bpc = "sleep"
    /\ ~SleepOver(scenario, elapsed, received_events)
    /\ elapsed' = elapsed + 1
    /\ UNCHANGED <<scenario, bpc, outq, serverSub, ponged, inflight,
                   received_events, capturedPre, flushes, published, actionStarted,
                   flushedBeforeAction, location_data, servicePending,
                   ownPublished, foreignSent, matchTick, matched, event,
                   eventIndex, busOutcome, collectedAt>>
    /\ UNCHANGED handler_errors
    /\ UNCHANGED nonBusVars

\* Index in evs of the first event of type t, 0 if there is none.
FirstOfType(evs, t) ==
    IF \E i \in DOMAIN evs : evs[i].event_type = t
    THEN CHOOSE i \in DOMAIN evs :
            /\ evs[i].event_type = t
            /\ \A j \in 1..(i - 1) : evs[j].event_type # t
    ELSE 0

\* The assertions of the event tests on the first event of the filtered list.
EventAsserts(s, e, loc) ==
    /\ e.driver_id = OwnDriver
    /\ s = "location" => e.latitude = loc.latitude /\ e.longitude = loc.longitude

\* An event test that asserts the list is not empty before it reads it.
EventTestOutcomeMandatory(s, m, loc) ==
    IF m # <<>> /\ EventAsserts(s, m[1], loc) THEN "passed" ELSE "failed"

\* 'if driver_events:' and the assertions under it: with an empty list
\* nothing is asserted and the test passes.
EventTestOutcome(s, m, loc) ==
    IF m = <<>> \/ EventAsserts(s, m[1], loc) THEN "passed" ELSE "failed"

\* The end of the test after the sleep: the list comprehension over the
\* collected events and the assertions on it. The event tests assert only
\* "if <list>:"; test_nats_connection asserts exactly one message and
\* test_nats_subscription_durability at least one.
Collect ==
    /\ bpc = "sleep"
    /\ SleepOver(scenario, elapsed, received_events)
    /\ matched' = FilterByType(received_events, EventTypeOf(scenario))
    /\ eventIndex' = FirstOfType(received_events, EventTypeOf(scenario))
    /\ event' = IF matched' # <<>> THEN matched'[1] ELSE NoEvent
    /\ busOutcome' =
          CASE scenario = "connection" ->
                  IF Len(received_events) = 1 THEN "passed" ELSE "failed"
            [] scenario = "durability" ->
                  IF Len(received_events) >= 1 THEN "passed" ELSE "failed"
            [] OTHER -> EventTestOutcome(scenario, matched', location_data)
    /\ collectedAt' = elapsed
    /\ bpc' = "done"
    /\ UNCHANGED <<scenario, outq, serverSub, ponged, inflight, received_events,
                   capturedPre, flushes, published, actionStarted,
                   flushedBeforeAction, location_data, servicePending,
                   ownPublished, foreignSent, elapsed, matchTick>>
    /\ UNCHANGED handler_errors
    /\ UNCHANGED nonBusVars


(***************************************************************************)
(* WebSocket message collector                                             *)
(* (tests/test_websocket.py, test_location_updates_via_websocket)          *)
(*                                                                         *)
(* One event loop runs the test coroutine and the collector task: the       *)
(* collector runs only while the test is suspended in an await, and the     *)
(* loop hands a frame that has arrived to a waiting collector before time   *)
(* passes or the test is resumed.                                           *)
(***************************************************************************)

\* Frames the server pushes on the session during the unit.
MaxFrames == 2

FrameKinds == {"location_update", "other", "malformed"}

\* asyncio.sleep(0.5) before the POST, asyncio.sleep(1.0) after it, and the
\* timeout=1.0 of wait_for(websocket.recv()), in ticks.
StabilizeTicks == TicksPerHalfSecond
WindowTicks == 2 * TicksPerHalfSecond
RecvTimeoutTicks == 2 * TicksPerHalfSecond

\* wait_for(websocket.recv(), timeout=1.0) raises TimeoutError once no frame
\* came for the timeout.
RecvTimedOut(i) == i >= RecvTimeoutTicks

InitWs ==
    /\ wpc = "connect"
    /\ session = "CONNECTING"
    /\ collector = "none"
    /\ idle = 0
    /\ wElapsed = 0
    /\ wsbuf = <<>>
    /\ received_messages = <<>>
    /\ delivered = {}
    /\ framesSent = 0
    /\ location_messages = <<>>
    /\ wsOutcome = "none"

IdleWs ==
    /\ wpc = "done"
    /\ session = "CLOSED"
    /\ collector = "none"
    /\ idle = 0
    /\ wElapsed = 0
    /\ wsbuf = <<>>
    /\ received_messages = <<>>
    /\ delivered = {}
    /\ framesSent = 0
    /\ location_messages = <<>>
    /\ wsOutcome = "none"

\* async with websockets.connect(ws_url): the session opens, or the connection
\* is refused and the test is skipped.
WsConnect ==
    /\ wpc = "connect"
    /\ \E ok \in BOOLEAN :
          IF ok
          THEN /\ session' = "OPEN"
               /\ wpc' = "create_task"
               /\ UNCHANGED wsOutcome
          ELSE /\ session' = "FAILED"
               /\ wpc' = "done"
               /\ wsOutcome' = "skipped"
    /\ UNCHANGED <<collector, idle, wElapsed, wsbuf, received_messages, delivered,
                   framesSent, location_messages>>
    /\ UNCHANGED nonWsVars

\* received_messages = [] and collector_task = asyncio.create_task(...)
CreateCollector ==
    /\ wpc = "create_task"
    /\ received_messages' = <<>>
    /\ collector' = "pending"
    /\ wpc' = "stabilize"
    /\ wElapsed' = 0
    /\ UNCHANGED <<session, idle, wsbuf, delivered, framesSent, location_messages,
                   wsOutcome>>
    /\ UNCHANGED nonWsVars

\* The test coroutine is suspended in one of its two sleeps.
TestAwaits == wpc \in {"stabilize", "settle"}

\* The collector task gets its first turn: it enters wait_for(recv, 1.0).
CollectorStart ==
    /\ collector = "pending"
    /\ TestAwaits
    /\ collector' = "waiting"
    /\ idle' = 0
    /\ UNCHANGED <<wpc, session, wElapsed, wsbuf, received_messages, delivered,
                   framesSent, location_messages, wsOutcome>>
    /\ UNCHANGED nonWsVars

\* The collection window: from the start of the collector to its cancel().
InWindow == collector # "none" /\ collector # "pending" /\ wpc \in {"stabilize", "post", "settle"}

\* The server pushes a frame on the open session.
ServerSend ==
    /\ session = "OPEN"
    /\ wpc \in {"create_task", "stabilize", "post", "settle"}
    /\ framesSent < MaxFrames
    /\ \E k \in FrameKinds :
          LET f == [type |-> k, n |-> framesSent + 1] IN
          /\ wsbuf' = Append(wsbuf, f)
          /\ delivered' = IF InWindow /\ k # "malformed"
                          THEN delivered \cup {f} ELSE delivered
    /\ framesSent' = framesSent + 1
    /\ UNCHANGED <<wpc, session, collector, idle, wElapsed, received_messages,
                   location_messages, wsOutcome>>
    /\ UNCHANGED nonWsVars

\* One pass of the loop of message_collector: recv returns a frame,
\* json.loads, append, and the next wait_for starts. json.loads of a frame
\* that is not JSON raises JSONDecodeError, which the except clause does not
\* name: the task ends.
CollectorRecv ==
    /\ collector = "waiting"
    /\ TestAwaits
    /\ wsbuf # <<>>
    /\ LET f == Head(wsbuf) IN
          IF f.type = "malformed"
          THEN /\ collector' = "crashed"
               /\ UNCHANGED <<received_messages, idle>>
          ELSE /\ received_messages' = Append(received_messages, f)
               /\ idle' = 0
               /\ UNCHANGED collector
    /\ wsbuf' = Tail(wsbuf)
    /\ UNCHANGED <<wpc, session, wElapsed, delivered, framesSent,
                   location_messages, wsOutcome>>
    /\ UNCHANGED nonWsVars

\* wait_for raises asyncio.TimeoutError: the except clause passes and the
\* collector returns. A frame that has already arrived is returned by recv
\* instead.
CollectorTimeout ==
    /\ collector = "waiting"
    /\ TestAwaits
    /\ wsbuf = <<>>
    /\ RecvTimedOut(idle)
    /\ collector' = "exited"
    /\ UNCHANGED <<wpc, session, idle, wElapsed, wsbuf, received_messages,
                   delivered, framesSent, location_messages, wsOutcome>>
    /\ UNCHANGED nonWsVars

\* Nothing is left for the loop to do before time passes or the test resumes.
LoopIdle ==
    /\ collector # "pending"
    /\ collector = "waiting" => wsbuf = <<>> /\ ~RecvTimedOut(idle)

\* Time passes while the test sleeps.
WsTick ==
    /\ TestAwaits
    /\ LoopIdle
    /\ wElapsed < (IF wpc = "stabilize" THEN StabilizeTicks ELSE WindowTicks)
    /\ wElapsed' = wElapsed + 1
    /\ idle' = IF collector = "waiting" THEN idle + 1 ELSE idle
    /\ UNCHANGED <<wpc, session, collector, wsbuf, received_messages, delivered,
                   framesSent, location_messages, wsOutcome>>
    /\ UNCHANGED nonWsVars

\* The sleep of 0.5 s is over.
Stabilized ==
    /\ wpc = "stabilize"
    /\ wElapsed = StabilizeTicks
    /\ LoopIdle
    /\ wpc' = "post"
    /\ UNCHANGED <<session, collector, idle, wElapsed, wsbuf, received_messages,
                   delivered, framesSent, location_messages, wsOutcome>>
    /\ UNCHANGED nonWsVars

\* http_client.post of the location and the assert on its status; a failed
\* assertion leaves the async with block, which closes the session.
WsPost ==
    /\ wpc = "post"
    /\ \E accepted \in BOOLEAN :
          IF accepted
          THEN /\ wpc' = "settle"
               /\ wElapsed' = 0
               /\ UNCHANGED <<session, wsOutcome>>
          ELSE /\ wpc' = "done"
               /\ session' = "CLOSED"
               /\ wsOutcome' = "failed"
               /\ UNCHANGED wElapsed
    /\ UNCHANGED <<collector, idle, wsbuf, received_messages, delivered,
                   framesSent, location_messages>>
    /\ UNCHANGED nonWsVars

\* The sleep of 1.0 s is over: collector_task.cancel().
CancelCollector ==
    /\ wpc = "settle"
    /\ wElapsed = WindowTicks
    /\ LoopIdle
    /\ collector' = IF collector = "waiting" THEN "cancelled" ELSE collector
    /\ wpc' = "read"
    /\ UNCHANGED <<session, idle, wElapsed, wsbuf, received_messages, delivered,
                   framesSent, location_messages, wsOutcome>>
    /\ UNCHANGED nonWsVars

\* The list comprehension over received_messages and the (optional)
\* assertions, then the end of the async with block.
ReadMessages ==
    /\ wpc = "read"
    /\ location_messages' =
          SelectSeq(received_messages, LAMBDA m : m.type = "location_update")
    /\ wsOutcome' = "passed"
    /\ session' = "CLOSED"
    /\ wpc' = "done"
    /\ UNCHANGED <<collector, idle, wElapsed, wsbuf, received_messages, delivered,
                   framesSent>>
    /\ UNCHANGED nonWsVars

(***************************************************************************)
(* WebSocket sessions of the multi-connection tests                        *)
(* (tests/test_websocket.py: test_websocket_invalid_driver_id,             *)
(* test_websocket_connection_limits, test_websocket_concurrent_connections, *)
(* test_websocket_connection_recovery)                                     *)
(*                                                                         *)
(* Every websockets.connect(...) makes a session of its own. The server     *)
(* and the network are the environment: a connect is answered or refused,   *)
(* an open session can be closed by the server or dropped.                  *)
(***************************************************************************)

\* max_connections in test_websocket_connection_limits
max_connections == 3

\* multiple_drivers[:3] in test_websocket_concurrent_connections
ConcurrentTargets == 3

SessionTests == {"limits", "concurrent", "recovery", "invalid"}

\* The number of websockets.connect calls the test can make.
TargetsOf(t) ==
    CASE t = "limits"     -> max_connections
      [] t = "concurrent" -> ConcurrentTargets
      [] t = "recovery"   -> 2
      [] OTHER            -> 1

SessionIds ==
    1..(IF max_connections > ConcurrentTargets THEN max_connections ELSE ConcurrentTargets)

\* How a connect can fail: "refused" is ConnectionRefusedError or InvalidURI,
\* the exceptions the tests name; "other" is any other exception (a rejected
\* handshake, a timeout).
ConnectErrors == {"refused", "other"}

\* An element of the list connections: a connection object, or the exception
\* gather put in its place.
Conn(i) == [kind |-> "conn", id |-> i]
Exc(i) == [kind |-> "exc", id |-> i]

\* websocket.open and websocket.closed; a dropped session counts as closed.
open(st) == st = "OPEN"
closed(st) == st \in {"CLOSED", "FAILED"}

\* A send that writes the frame whatever the state of the session.
TransmitsAlways(st) == TRUE

\* await websocket.send(...): the frame is written on an open session; on any
\* other the call raises ConnectionClosed.
Transmits(st) == open(st)

\* A gather that lets the first exception through to the caller.
gather_first_exception(results) ==
    [raised |-> \E i \in DOMAIN results : results[i].kind = "exc", value |-> results]

\* asyncio.gather(*connect_tasks, return_exceptions=True): one result per
\* awaitable, in their order, an exception in the place of a failed one.
gather(results) == [raised |-> FALSE, value |-> results]

InitSessions ==
    /\ wtest \in SessionTests
    /\ mpc = IF wtest = "concurrent" THEN "gather" ELSE "connect"
    /\ cur = 1
    /\ conn_state = [i \in SessionIds |-> "NONE"]
    /\ conn_error = [i \in SessionIds |-> "none"]
    /\ connections = <<>>
    /\ successful_connections = <<>>
    /\ attempts = [i \in SessionIds |-> 0]
    /\ sent = [i \in SessionIds |-> 0]
    /\ awaiting = 0
    /\ resume = "none"
    /\ mOutcome = "none"

IdleSessions ==
    /\ wtest = "invalid"
    /\ mpc = "done"
    /\ cur = 1
    /\ conn_state = [i \in SessionIds |-> "NONE"]
    /\ conn_error = [i \in SessionIds |-> "none"]
    /\ connections = <<>>
    /\ successful_connections = <<>>
    /\ attempts = [i \in SessionIds |-> 0]
    /\ sent = [i \in SessionIds |-> 0]
    /\ awaiting = 0
    /\ resume = "none"
    /\ mOutcome = "none"

\* await websockets.connect(ws_url) of the tests that connect one session
\* after the other: the connect starts.
Connect ==
    /\ mpc = "connect"
    /\ conn_state[cur] = "NONE"
    /\ conn_state' = [conn_state EXCEPT ![cur] = "CONNECTING"]
    /\ attempts' = [attempts EXCEPT ![cur] = @ + 1]
    /\ mpc' = "connecting"
    /\ UNCHANGED <<wtest, cur, conn_error, connections, successful_connections,
                   sent, awaiting, resume, mOutcome>>
    /\ UNCHANGED nonSessVars

\* The loop that builds connect_tasks and the call of gather: all the
\* connects of test_websocket_concurrent_connections start.
GatherStart ==
    /\ mpc = "gather"
    /\ conn_state' = [i \in SessionIds |->
                        IF i <= ConcurrentTargets THEN "CONNECTING" ELSE conn_state[i]]
    /\ attempts' = [i \in SessionIds |->
                        IF i <= ConcurrentTargets THEN attempts[i] + 1 ELSE attempts[i]]
    /\ mpc' = "gathering"
    /\ UNCHANGED <<wtest, cur, conn_error, connections, successful_connections,
                   sent, awaiting, resume, mOutcome>>
    /\ UNCHANGED nonSessVars

\* A connect is answered: the session opens, or the connect raises.
ConnectResolve ==
    /\ \E i \in SessionIds, r \in {"open"} \cup ConnectErrors :
          /\ conn_state[i] = "CONNECTING"
          /\ conn_state' = [conn_state EXCEPT ![i] = IF r = "open" THEN "OPEN" ELSE "FAILED"]
          /\ conn_error' = [conn_error EXCEPT ![i] = IF r = "open" THEN "none" ELSE r]
    /\ UNCHANGED <<wtest, mpc, cur, connections, successful_connections, attempts,
                   sent, awaiting, resume, mOutcome>>
    /\ UNCHANGED nonSessVars

\* The test goes on after its connect returned or raised.
\* test_websocket_connection_limits appends the connection, or leaves the loop
\* at the first exception (except Exception: break). The tests with
\* "async with" skip on ConnectionRefusedError and InvalidURI;
\* test_websocket_invalid_driver_id expects the exception.
Connected ==
    /\ mpc = "connecting"
    /\ conn_state[cur] # "CONNECTING"
    /\ IF conn_error[cur] = "none"
       THEN /\ connections' = Append(connections, Conn(cur))
            /\ UNCHANGED mOutcome
            /\ IF wtest = "limits" /\ cur < max_connections
               THEN /\ cur' = cur + 1
                    /\ mpc' = "connect"
               ELSE /\ UNCHANGED cur
                    /\ mpc' = IF wtest = "invalid" THEN "settle" ELSE "body"
       ELSE /\ UNCHANGED <<connections, cur>>
            /\ IF wtest = "limits"
               THEN /\ mpc' = "body"
                    /\ UNCHANGED mOutcome
               ELSE /\ mpc' = "done"
                    /\ mOutcome' =
                          CASE wtest = "invalid" /\ conn_error[cur] = "refused" -> "passed"
                            [] wtest # "invalid" /\ conn_error[cur] = "refused" -> "skipped"
                            [] OTHER -> "failed"
    /\ UNCHANGED <<wtest, conn_state, conn_error, successful_connections, attempts,
                   sent, awaiting, resume>>
    /\ UNCHANGED nonSessVars

\* gather returns once every connect is answered; an exception out of gather
\* is passed over (except Exception: pass) and connections stays as it was.
GatherDone ==
    /\ mpc = "gathering"
    /\ \A i \in 1..ConcurrentTargets : conn_state[i] # "CONNECTING"
    /\ LET results == [i \in 1..ConcurrentTargets |->
                          IF conn_error[i] = "none" THEN Conn(i) ELSE Exc(i)]
           g == gather(results) IN
          connections' = IF g.raised THEN connections ELSE g.value
    /\ mpc' = "body"
    /\ UNCHANGED <<wtest, cur, conn_state, conn_error, successful_connections,
                   attempts, sent, awaiting, resume, mOutcome>>
    /\ UNCHANGED nonSessVars

\* test_websocket_connection_limits after the loop: assert
\* len(connections) >= 1, send on connections[0], assert connections[0].open.
LimitsBody ==
    /\ mpc = "body"
    /\ wtest = "limits"
    /\ IF connections = <<>>
       THEN /\ mOutcome' = "failed"
            /\ UNCHANGED sent
       ELSE LET c == connections[1].id IN
            IF Transmits(conn_state[c])
            THEN /\ sent' = [sent EXCEPT ![c] = @ + 1]
                 /\ mOutcome' = IF open(conn_state[c]) THEN "passed" ELSE "failed"
            ELSE /\ mOutcome' = "failed"
                 /\ UNCHANGED sent
    /\ mpc' = "finally"
    /\ cur' = 1
    /\ UNCHANGED <<wtest, conn_state, conn_error, connections,
                   successful_connections, attempts, awaiting, resume>>
    /\ UNCHANGED nonSessVars

\* test_websocket_concurrent_connections after gather: the list of the open
\* connections, a send on each; with no open connection nothing is asserted.
ConcurrentBody ==
    /\ mpc = "body"
    /\ wtest = "concurrent"
    /\ LET successful == SelectSeq(connections,
                            LAMBDA e : e.kind = "conn" /\ open(conn_state[e.id])) IN
          /\ successful_connections' = successful
          /\ sent' = [i \in SessionIds |->
                        IF \E k \in DOMAIN successful : successful[k].id = i
                        THEN sent[i] + 1 ELSE sent[i]]
          /\ IF successful = <<>>
             THEN /\ mOutcome' = "passed"
                  /\ mpc' = "finally"
             ELSE /\ UNCHANGED mOutcome
                  /\ mpc' = "settle"
    /\ cur' = 1
    /\ UNCHANGED <<wtest, conn_state, conn_error, connections, attempts, awaiting,
                   resume>>
    /\ UNCHANGED nonSessVars

\* After asyncio.sleep(0.5): assert conn.open for each successful connection.
ConcurrentAssert ==
    /\ mpc = "settle"
    /\ wtest = "concurrent"
    /\ mOutcome' = IF \A k \in DOMAIN successful_connections :
                         open(conn_state[successful_connections[k].id])
                   THEN "passed" ELSE "failed"
    /\ mpc' = "finally"
    /\ UNCHANGED <<wtest, cur, conn_state, conn_error, connections,
                   successful_connections, attempts, sent, awaiting, resume>>
    /\ UNCHANGED nonSessVars

\* test_websocket_connection_recovery inside an "async with": assert
\* websocket.open and a send; the first session is then closed by the test,
\* the second is kept for the sleep of 0.5 s.
RecoveryBody ==
    /\ mpc = "body"
    /\ wtest = "recovery"
    /\ IF open(conn_state[cur]) /\ Transmits(conn_state[cur])
       THEN /\ sent' = [sent EXCEPT ![cur] = @ + 1]
            /\ UNCHANGED mOutcome
            /\ IF cur = 1
               THEN /\ mpc' = "close"
                    /\ resume' = "next_session"
               ELSE /\ mpc' = "settle"
                    /\ UNCHANGED resume
       ELSE /\ mOutcome' = "failed"
            /\ mpc' = "close"
            /\ resume' = "done"
            /\ UNCHANGED sent
    /\ UNCHANGED <<wtest, cur, conn_state, conn_error, connections,
                   successful_connections, attempts, awaiting>>
    /\ UNCHANGED nonSessVars

\* After asyncio.sleep(0.5): assert websocket2.open, then the end of the
\* "async with" block.
RecoveryAssert ==
    /\ mpc = "settle"
    /\ wtest = "recovery"
    /\ mOutcome' = IF open(conn_state[cur]) THEN "passed" ELSE "failed"
    /\ mpc' = "close"
    /\ resume' = "done"
    /\ UNCHANGED <<wtest, cur, conn_state, conn_error, connections,
                   successful_connections, attempts, sent, awaiting>>
    /\ UNCHANGED nonSessVars

\* test_websocket_invalid_driver_id after asyncio.sleep(1.0): the send. A
\* send that raises ConnectionClosedError is what pytest.raises expects; a
\* send that raises ConnectionClosedOK, or that succeeds, fails the test.
InvalidSend ==
    /\ mpc = "settle"
    /\ wtest = "invalid"
    /\ IF Transmits(conn_state[cur])
       THEN /\ sent' = [sent EXCEPT ![cur] = @ + 1]
            /\ mOutcome' = "failed"
       ELSE /\ UNCHANGED sent
            /\ \E expected \in BOOLEAN :
                  mOutcome' = IF expected THEN "passed" ELSE "failed"
    /\ mpc' = "close"
    /\ resume' = "done"
    /\ UNCHANGED <<wtest, cur, conn_state, conn_error, connections,
                   successful_connections, attempts, awaiting>>
    /\ UNCHANGED nonSessVars

\* await websocket.close(), called by the test or by the end of an
\* "async with" block: the closing handshake starts on an open session, and
\* the call waits for the session to be closed.
CloseStart ==
    /\ mpc = "close"
    /\ conn_state' = [conn_state EXCEPT ![cur] = IF open(@) THEN "CLOSING" ELSE @]
    /\ awaiting' = cur
    /\ mpc' = "close_wait"
    /\ UNCHANGED <<wtest, cur, conn_error, connections, successful_connections,
                   attempts, sent, resume, mOutcome>>
    /\ UNCHANGED nonSessVars

\* close() returns: the test goes on with what follows the close.
CloseReturn ==
    /\ mpc = "close_wait"
    /\ closed(conn_state[awaiting])
    /\ awaiting' = 0
    /\ mpc' = CASE resume = "finally"      -> "finally"
                [] resume = "next_session" -> "connect"
                [] OTHER                   -> "done"
    /\ cur' = IF resume \in {"finally", "next_session"} THEN cur + 1 ELSE cur
    /\ UNCHANGED <<wtest, conn_state, conn_error, connections,
                   successful_connections, attempts, sent, resume, mOutcome>>
    /\ UNCHANGED nonSessVars

\* The condition under which the finally block closes an element of
\* connections: "if not conn.closed" in test_websocket_connection_limits,
\* "if hasattr(conn, 'close') and hasattr(conn, 'open') and conn.open" in
\* test_websocket_concurrent_connections.
ShouldClose(t, e, st) ==
    IF t = "limits" THEN ~closed(st[e.id])
    ELSE e.kind = "conn" /\ open(st[e.id])

\* One pass of the loop of the finally block.
Finally ==
    /\ mpc = "finally"
    /\ IF cur > Len(connections)
       THEN /\ mpc' = "done"
            /\ UNCHANGED <<cur, conn_state, awaiting, resume>>
       ELSE LET e == connections[cur] IN
            IF ShouldClose(wtest, e, conn_state)
            THEN /\ conn_state' = [conn_state EXCEPT ![e.id] =
                                      IF open(@) THEN "CLOSING" ELSE @]
                 /\ awaiting' = e.id
                 /\ resume' = "finally"
                 /\ mpc' = "close_wait"
                 /\ UNCHANGED cur
            ELSE /\ cur' = cur + 1
                 /\ UNCHANGED <<mpc, conn_state, awaiting, resume>>
    /\ UNCHANGED <<wtest, conn_error, connections, successful_connections,
                   attempts, sent, mOutcome>>
    /\ UNCHANGED nonSessVars

\* The server starts the closing handshake of an open session.
RemoteClose ==
    /\ mpc # "done"
    /\ \E i \in SessionIds :
          /\ conn_state[i] = "OPEN"
          /\ conn_state' = [conn_state EXCEPT ![i] = "CLOSING"]
    /\ UNCHANGED <<wtest, mpc, cur, conn_error, connections,
                   successful_connections, attempts, sent, awaiting, resume,
                   mOutcome>>
    /\ UNCHANGED nonSessVars

\* The network drops an open session.
RemoteDrop ==
    /\ mpc # "done"
    /\ \E i \in SessionIds :
          /\ conn_state[i] = "OPEN"
          /\ conn_state' = [conn_state EXCEPT ![i] = "FAILED"]
    /\ UNCHANGED <<wtest, mpc, cur, conn_error, connections,
                   successful_connections, attempts, sent, awaiting, resume,
                   mOutcome>>
    /\ UNCHANGED nonSessVars

\* The closing handshake of a session ends; this takes a turn of the event
\* loop, which runs while the test runs.
CloseHandshakeDone ==
    /\ mpc # "done"
    /\ \E i \in SessionIds :
          /\ conn_state[i] = "CLOSING"
          /\ conn_state' = [conn_state EXCEPT ![i] = "CLOSED"]
    /\ UNCHANGED <<wtest, mpc, cur, conn_error, connections,
                   successful_connections, attempts, sent, awaiting, resume,
                   mOutcome>>
    /\ UNCHANGED nonSessVars

(***************************************************************************)
(* Readiness probers (utils/helpers.py: wait_for_service,                  *)
(* wait_for_postgres; tests/test_grpc_api.py: wait_for_grpc_server)        *)
(*                                                                         *)
(* The clock counts seconds from start_time. The dependency is the          *)
(* environment: until it is up it refuses a probe at once, answers it with  *)
(* a non-success, or leaves it blocked until the timeout of the probe;      *)
(* from upAt on it answers every probe successfully. A probe that is        *)
(* answered takes no time at the scale of the clock.                        *)
(***************************************************************************)

\* The latest second at which the dependency of a run comes up early.
MaxUpAt == 4

\* The clock stops counting here; no call gets this far.
ClockCap == 70

\* interval=1.0 of wait_for_service, time.sleep(1) of the two others
PollInterval == 1

\* requests.get(..., timeout=5) and connect_timeout=5
ServiceProbeTimeout == 5
PostgresProbeTimeout == 5

\* future.result(timeout=1)
GrpcProbeTimeout == 1

\* The calls: a timeout of zero and a negative one, the default timeout of
\* each prober, and the wait_for_service(config.http_base_url, timeout=60) of
\* conftest.py.
ProbeCalls ==
    {[prober |-> "wait_for_service", timeout |-> 0],
     [prober |-> "wait_for_postgres", timeout |-> -1],
     [prober |-> "wait_for_service", timeout |-> 30],
     [prober |-> "wait_for_service", timeout |-> 60],
     [prober |-> "wait_for_postgres", timeout |-> 30],
     [prober |-> "wait_for_grpc_server", timeout |-> 30]}

\* When the dependency comes up: early, just after the timeout, or never.
NeverUp == ClockCap + 1

UpTimes(timeout) == (0..MaxUpAt) \cup {timeout + 1} \cup {NeverUp}

ProbeTimeoutOf(p) ==
    CASE p = "wait_for_service"  -> ServiceProbeTimeout
      [] p = "wait_for_postgres" -> PostgresProbeTimeout
      [] OTHER                   -> GrpcProbeTimeout

\* What a probe can end with: "success" (status 200, a connection, a ready
\* channel), "non_success" (a response with another status), "refused" and
\* "timeout" (the exception of the client library). ProbeRaised: the probe
\* ended with an exception.
ProbeRaised(a) == a \in {"refused", "timeout"}

\* The exception of a failed probe: requests.RequestException,
\* psycopg2.OperationalError, grpc.FutureTimeoutError.
ExceptionOf(p) ==
    CASE p = "wait_for_service"  -> "RequestException"
      [] p = "wait_for_postgres" -> "OperationalError"
      [] OTHER                   -> "FutureTimeoutError"

\* A prober whose except clause catches nothing.
SwallowsNothing(p, exc) == FALSE

\* The except clause of the prober: requests.RequestException,
\* psycopg2.OperationalError, and a bare except.
Swallows(p, exc) ==
    CASE p = "wait_for_service"  -> exc = "RequestException"
      [] p = "wait_for_postgres" -> exc = "OperationalError"
      [] OTHER                   -> TRUE

\* What the except clause logs: logger.debug in wait_for_service and
\* wait_for_postgres, nothing in wait_for_grpc_server.
LogsProbeFailure(p) == p \in {"wait_for_service", "wait_for_postgres"}

\* A prober that takes any response for a success.
ReadyOnAnyAnswer(p, a) == a \in {"success", "non_success"}

\* The probe counts as a success: response.status_code == 200, a connection
\* that was made, a channel that became ready.
Ready(p, a) == a = "success"

\* A loop that never looks at the clock.
TimeLeftAlways(t, timeout) == TRUE

\* A loop that still probes when exactly timeout has elapsed.
TimeLeftInclusive(t, timeout) == t <= timeout

\* while time.time() - start_time < timeout
TimeLeft(t, timeout) == t < timeout

\* A sleep as long as the timeout of the request.
PollSleepRequestTimeout(interval) == ServiceProbeTimeout * interval

\* time.sleep(interval)
PollSleep(interval) == interval

ClockAfter(t, d) == IF t + d > ClockCap THEN ClockCap ELSE t + d

\* The dependency answers successfully at second t.
IsUp(u, t) == u # NeverUp /\ t >= u

\* The ways a probe started at second t can end, with the time each takes.
ProbeEndings(p, u, t) ==
    IF IsUp(u, t)
    THEN {[answer |-> "success", took |-> 0]}
    ELSE {[answer |-> "refused", took |-> 0],
          [answer |-> "timeout", took |-> ProbeTimeoutOf(p)]}
         \cup (IF p = "wait_for_service"
               THEN {[answer |-> "non_success", took |-> 0]} ELSE {})
         \cup (IF u # NeverUp /\ u < t + ProbeTimeoutOf(p)
               THEN {[answer |-> "success", took |-> u - t]} ELSE {})

InitProbe ==
    /\ \E c \in ProbeCalls :
          /\ prober = c.prober
          /\ p_timeout = c.timeout
          /\ upAt \in UpTimes(c.timeout)
    /\ ppc = "check"
    /\ now = 0
    /\ probes = 0
    /\ successes = 0
    /\ last_probe = "none"
    /\ last_log = "none"
    /\ blocked = FALSE
    /\ p_result = "running"

IdleProbe ==
    /\ prober = "wait_for_service"
    /\ p_timeout = 0
    /\ upAt = NeverUp
    /\ ppc = "returned"
    /\ now = 0
    /\ probes = 0
    /\ successes = 0
    /\ last_probe = "none"
    /\ last_log = "none"
    /\ blocked = FALSE
    /\ p_result = "running"

\* The test of the while loop; when it fails, the error is logged (not by
\* wait_for_grpc_server) and the prober returns False.
LoopCheck ==
    /\ ppc = "check"
    /\ IF TimeLeft(now, p_timeout)
       THEN /\ ppc' = "probing"
            /\ UNCHANGED <<p_result, last_log>>
       ELSE /\ ppc' = "returned"
            /\ p_result' = "false"
            /\ last_log' = IF LogsProbeFailure(prober) THEN "error" ELSE last_log
    /\ UNCHANGED <<prober, p_timeout, upAt, now, probes, successes, last_probe,
                   blocked>>
    /\ UNCHANGED nonProbeVars

\* The try block: one probe and what the prober does with its end. A success
\* returns True; an exception the except clause names is logged and passed
\* over; any other exception leaves the prober.
Probe ==
    /\ ppc = "probing"
    /\ \E e \in ProbeEndings(prober, upAt, now) :
          /\ now' = ClockAfter(now, e.took)
          /\ probes' = probes + 1
          /\ last_probe' = e.answer
          /\ blocked' = (blocked \/ e.answer = "timeout")
          /\ IF Ready(prober, e.answer)
             THEN /\ successes' = successes + 1
                  /\ p_result' = "true"
                  /\ ppc' = "returned"
                  /\ last_log' = IF LogsProbeFailure(prober) THEN "info" ELSE last_log
             ELSE IF ProbeRaised(e.answer) /\ ~Swallows(prober, ExceptionOf(prober))
             THEN /\ p_result' = "raised"
                  /\ ppc' = "returned"
                  /\ UNCHANGED <<successes, last_log>>
             ELSE /\ ppc' = "sleeping"
                  /\ last_log' = IF ProbeRaised(e.answer) /\ LogsProbeFailure(prober)
                                 THEN "debug" ELSE last_log
                  /\ UNCHANGED <<successes, p_result>>
    /\ UNCHANGED <<prober, p_timeout, upAt>>
    /\ UNCHANGED nonProbeVars

\* time.sleep(interval) before the next test of the loop.
Sleep ==
    /\ ppc = "sleeping"
    /\ now' = ClockAfter(now, PollSleep(PollInterval))
    /\ ppc' = "check"
    /\ UNCHANGED <<prober, p_timeout, upAt, probes, successes, last_probe,
                   last_log, blocked, p_result>>
    /\ UNCHANGED nonProbeVars

(***************************************************************************)
(* The readiness gate of a session (conftest.py: wait_for_services,         *)
(* http_client) and the test units that request it or not.                  *)
(*                                                                         *)
(* wait_for_services is a session fixture that is not autouse: it runs      *)
(* when the first unit that requests http_client (directly or through       *)
(* created_driver) is set up, and its result, or its failure, is kept for   *)
(* the session. Session fixtures are set up before the function fixtures    *)
(* of a unit.                                                               *)
(***************************************************************************)

\* The units a session is made of here, in the order pytest runs them.
UnitsPerSession == 2

\* Test units by the fixtures they request.
GateUnits == {"test_create_driver_success", "test_driver_registered_event",
              "test_location_tracking_websocket_connection",
              "test_nats_connection", "test_websocket_invalid_driver_id",
              "test_grpc_concurrent_connections"}

\* The unit requests http_client, and with it wait_for_services.
RequestsHttpClient(u) ==
    u \in {"test_create_driver_success", "test_driver_registered_event",
           "test_location_tracking_websocket_connection"}

\* What the unit opens or sends on: HTTP requests, the bus, a socket, a
\* gRPC channel.
ChannelsOf(u) ==
    CASE u = "test_create_driver_success"                  -> <<"http">>
      [] u = "test_driver_registered_event"                -> <<"bus", "http">>
      [] u = "test_location_tracking_websocket_connection" -> <<"http", "socket">>
      [] u = "test_nats_connection"                        -> <<"bus">>
      [] u = "test_websocket_invalid_driver_id"            -> <<"socket">>
      [] OTHER                                             -> <<"channel">>

RECURSIVE SeqsOfLen(_, _)
SeqsOfLen(S, n) ==
    IF n = 0 THEN {<<>>}
    ELSE {Append(s, x) : s \in SeqsOfLen(S, n - 1), x \in S}

InitGate ==
    /\ g_units \in SeqsOfLen(GateUnits, UnitsPerSession)
    /\ g_idx = 1
    /\ gpc = "setup"
    /\ services_ready = "none"
    /\ contacts = <<>>
    /\ g_outcomes = <<>>
    /\ g_probes = <<>>
    /\ http_session = "none"
    /\ session_closes = 0

IdleGate ==
    /\ g_units = <<>>
    /\ g_idx = 1
    /\ gpc = "done"
    /\ services_ready = "none"
    /\ contacts = <<>>
    /\ g_outcomes = <<>>
    /\ g_probes = <<>>
    /\ http_session = "none"
    /\ session_closes = 0

\* A fixture that calls the second prober whatever the first returned.
ProbesRegardless(result) == TRUE

\* assert wait_for_postgres(timeout=30), "...": the statement after it is
\* reached only if the prober returned True.
AssertPasses(result) == result

\* The fixture wait_for_services, run for the first unit that requests it:
\* assert wait_for_postgres(timeout=30), then
\* assert wait_for_service(config.http_base_url, timeout=60). What the
\* probers return is the environment's choice.
wait_for_services ==
    /\ gpc = "setup"
    /\ RequestsHttpClient(g_units[g_idx])
    /\ services_ready = "none"
    /\ \E postgres \in BOOLEAN, service \in BOOLEAN :
          /\ g_probes' =
                IF AssertPasses(postgres)
                THEN <<[prober |-> "wait_for_postgres", result |-> postgres],
                       [prober |-> "wait_for_service", result |-> service]>>
                ELSE <<[prober |-> "wait_for_postgres", result |-> postgres]>>
          /\ services_ready' = IF postgres /\ service THEN "true" ELSE "false"
    /\ UNCHANGED <<g_units, g_idx, gpc, contacts, g_outcomes, http_session,
                   session_closes>>
    /\ UNCHANGED nonGateVars

\* The fixture http_client up to its yield, run once wait_for_services has
\* returned: session = requests.Session() and its headers.
http_client ==
    /\ gpc = "setup"
    /\ RequestsHttpClient(g_units[g_idx])
    /\ services_ready = "true"
    /\ http_session = "none"
    /\ http_session' = "open"
    /\ UNCHANGED <<g_units, g_idx, gpc, services_ready, contacts, g_outcomes,
                   g_probes, session_closes>>
    /\ UNCHANGED nonGateVars

\* The rest of the setup of the unit: a unit that requests the gate gets the
\* kept result and the kept session, and ends with an error at setup if an
\* assertion of wait_for_services failed.
UnitSetup ==
    /\ gpc = "setup"
    /\ RequestsHttpClient(g_units[g_idx]) =>
          /\ services_ready # "none"
          /\ services_ready = "true" => http_session = "open"
    /\ IF RequestsHttpClient(g_units[g_idx]) /\ services_ready = "false"
       THEN /\ g_outcomes' = Append(g_outcomes, "error")
            /\ gpc' = "end"
       ELSE /\ gpc' = "body"
            /\ UNCHANGED g_outcomes
    /\ UNCHANGED <<g_units, g_idx, services_ready, contacts, g_probes,
                   http_session, session_closes>>
    /\ UNCHANGED nonGateVars

\* The function fixtures and the body of the unit: it opens its channels and
\* ends as passed, failed or skipped.
UnitBody ==
    /\ gpc = "body"
    /\ contacts' = contacts \o
          [k \in DOMAIN ChannelsOf(g_units[g_idx]) |->
              [unit |-> g_units[g_idx], channel |-> ChannelsOf(g_units[g_idx])[k],
               ready |-> services_ready]]
    /\ \E o \in {"passed", "failed", "skipped"} : g_outcomes' = Append(g_outcomes, o)
    /\ gpc' = "end"
    /\ UNCHANGED <<g_units, g_idx, services_ready, g_probes, http_session,
                   session_closes>>
    /\ UNCHANGED nonGateVars

\* pytest goes on to the next unit of the session; after the last one it
\* tears the session fixtures down: http_client is resumed after its yield
\* and calls session.close().
NextUnit ==
    /\ gpc = "end"
    /\ IF g_idx = Len(g_units)
       THEN /\ gpc' = "done"
            /\ http_session' = IF http_session = "open" THEN "closed" ELSE http_session
            /\ session_closes' = IF http_session = "open" THEN session_closes + 1
                                 ELSE session_closes
            /\ UNCHANGED g_idx
       ELSE /\ gpc' = "setup"
            /\ g_idx' = g_idx + 1
            /\ UNCHANGED <<http_session, session_closes>>
    /\ UNCHANGED <<g_units, services_ready, contacts, g_outcomes, g_probes>>
    /\ UNCHANGED nonGateVars

(***************************************************************************)
(* Two subscriptions on one connection                                     *)
(* (tests/test_nats_events.py: the nats_client fixture and                 *)
(* test_nats_event_ordering)                                               *)
(*                                                                         *)
(* The client keeps one queue of pending messages per subscription and one  *)
(* task per subscription that takes the messages of its queue in order and  *)
(* awaits the callback on each. The tasks run only while the test           *)
(* coroutine is suspended in an await. The server, the service and the      *)
(* other units are the environment.                                         *)
(***************************************************************************)

\* Messages the server routes to one subscription during the unit.
MaxPerSubject == 2

\* len(status_events) in test_nats_event_ordering
StatusChanges == 3

\* subjects.driver_status_changed and subjects.driver_location_updated, in
\* the order the test subscribes to them.
OrderingSubjects == <<"driver.status.changed", "driver.location.updated">>

SubjectSet == {OrderingSubjects[k] : k \in DOMAIN OrderingSubjects}

\* The event_type of the events the service publishes on a subject.
EventTypeOnSubject(s) ==
    IF s = "driver.status.changed"
    THEN "driver_status_changed" ELSE "driver_location_updated"

\* The n-th message routed on subject s, of kind k.
SubjectMsg(s, n, k) ==
    [subject |-> s, n |-> n, kind |-> k,
     event_type |-> IF k = "json" THEN EventTypeOnSubject(s) ELSE "none"]

PayloadKinds == {"json", "malformed", "not_utf8"}

\* A collector that keeps only the latest event.
event_collector_keeps_latest(evs, msg) ==
    IF msg.kind \in Undecodable THEN evs ELSE <<msg>>

\* event_collector: msg.data.decode(), json.loads, events.append; a
\* JSONDecodeError is passed over.
event_collector(evs, msg) ==
    IF msg.kind \in Undecodable THEN evs ELSE Append(evs, msg)

\* nc.is_connected
is_connected(st) == st = "CONNECTED"

\* The SUB commands the client has written, by the position of the test.
SubsWritten(pc) ==
    CASE pc \in {"connect", "fixture", "subscribe1"} -> 0
      [] pc = "subscribe2" -> 1
      [] OTHER -> 2

\* The test coroutine is suspended in an await in which the tasks of the
\* subscriptions get their turns.
OrderingAwaits == opc \in {"flush_wait", "nap", "settle"}

InitOrdering ==
    /\ opc = "connect"
    /\ nc = "DISCONNECTED"
    /\ closes = 0
    /\ ord_i = 0
    /\ o_known = {}
    /\ o_pending = [s \in SubjectSet |-> <<>>]
    /\ o_routed = [s \in SubjectSet |-> <<>>]
    /\ events = <<>>
    /\ o_outcome = "none"

IdleOrdering ==
    /\ opc = "done"
    /\ nc = "DISCONNECTED"
    /\ closes = 0
    /\ ord_i = 0
    /\ o_known = {}
    /\ o_pending = [s \in SubjectSet |-> <<>>]
    /\ o_routed = [s \in SubjectSet |-> <<>>]
    /\ events = <<>>
    /\ o_outcome = "none"

\* nats_client up to its yield: nc.connect succeeds, or raises and the except
\* clause skips the test; the finally clause then finds nc not connected.
NcConnect ==
    /\ opc = "connect"
    /\ \E ok \in BOOLEAN :
          IF ok
          THEN /\ nc' = "CONNECTED"
               /\ opc' = "fixture"
               /\ UNCHANGED o_outcome
          ELSE /\ opc' = "done"
               /\ o_outcome' = "skipped"
               /\ UNCHANGED nc
    /\ UNCHANGED <<closes, ord_i, o_known, o_pending, o_routed, events>>
    /\ UNCHANGED nonOrdVars

\* The created_driver fixture of the test: it returns, or raises and the
\* unit is an error; fixtures already set up are torn down.
OrderingFixture ==
    /\ opc = "fixture"
    /\ \E ok \in BOOLEAN :
          IF ok
          THEN /\ opc' = "subscribe1"
               /\ UNCHANGED o_outcome
          ELSE /\ opc' = "teardown"
               /\ o_outcome' = "error"
    /\ UNCHANGED <<nc, closes, ord_i, o_known, o_pending, o_routed, events>>
    /\ UNCHANGED nonOrdVars

\* await nats_client.subscribe(subject, cb=event_collector), twice: the SUB is
\* written, the call does not wait for the server.
OrderingSubscribe ==
    /\ opc \in {"subscribe1", "subscribe2"}
    /\ opc' = IF opc = "subscribe1" THEN "subscribe2" ELSE "flush"
    /\ UNCHANGED <<nc, closes, ord_i, o_known, o_pending, o_routed, events,
                   o_outcome>>
    /\ UNCHANGED nonOrdVars

\* The server takes the next SUB of the connection.
ServerRegister ==
    /\ opc \notin {"done", "teardown"}
    /\ nc = "CONNECTED"
    /\ Cardinality(o_known) < SubsWritten(opc)
    /\ o_known' = o_known \cup {OrderingSubjects[Cardinality(o_known) + 1]}
    /\ UNCHANGED <<opc, nc, closes, ord_i, o_pending, o_routed, events, o_outcome>>
    /\ UNCHANGED nonOrdVars

\* await nats_client.flush(), first half: the PING is written.
OrderingFlushStart ==
    /\ opc = "flush"
    /\ opc' = "flush_wait"
    /\ UNCHANGED <<nc, closes, ord_i, o_known, o_pending, o_routed, events,
                   o_outcome>>
    /\ UNCHANGED nonOrdVars

\* await nats_client.flush(), second half: the PONG is back, which the server
\* sends after it has taken the commands written before the PING.
OrderingFlushDone ==
    /\ opc = "flush_wait"
    /\ o_known = SubjectSet
    /\ opc' = "act"
    /\ UNCHANGED <<nc, closes, ord_i, o_known, o_pending, o_routed, events,
                   o_outcome>>
    /\ UNCHANGED nonOrdVars

\* One pass of the loop up to its sleep: session.patch of the status and
\* session.post of a location. The answers are not looked at, and the calls
\* block the event loop.
OrderingAct ==
    /\ opc = "act"
    /\ ord_i' = ord_i + 1
    /\ opc' = "nap"
    /\ UNCHANGED <<nc, closes, o_known, o_pending, o_routed, events, o_outcome>>
    /\ UNCHANGED nonOrdVars

\* await asyncio.sleep(0.5) of the loop is over.
OrderingNapOver ==
    /\ opc = "nap"
    /\ opc' = IF ord_i = StatusChanges THEN "settle" ELSE "act"
    /\ UNCHANGED <<nc, closes, ord_i, o_known, o_pending, o_routed, events,
                   o_outcome>>
    /\ UNCHANGED nonOrdVars

\* The service or another unit publishes on a subject the server knows a
\* subscription of: the message is routed to the queue of that subscription.
SubjectPublish ==
    /\ opc \notin {"done", "teardown"}
    /\ nc = "CONNECTED"
    /\ \E s \in o_known, k \in PayloadKinds :
          /\ Len(o_routed[s]) < MaxPerSubject
          /\ LET m == SubjectMsg(s, Len(o_routed[s]) + 1, k) IN
                /\ o_routed' = [o_routed EXCEPT ![s] = Append(@, m)]
                /\ o_pending' = [o_pending EXCEPT ![s] = Append(@, m)]
    /\ UNCHANGED <<opc, nc, closes, ord_i, o_known, events, o_outcome>>
    /\ UNCHANGED nonOrdVars

\* The task of a subscription takes the next message of its queue and awaits
\* event_collector on it.
SubscriptionHandle ==
    /\ OrderingAwaits
    /\ \E s \in SubjectSet :
          /\ o_pending[s] # <<>>
          /\ events' = event_collector(events, Head(o_pending[s]))
          /\ o_pending' = [o_pending EXCEPT ![s] = Tail(@)]
    /\ UNCHANGED <<opc, nc, closes, ord_i, o_known, o_routed, o_outcome>>
    /\ UNCHANGED nonOrdVars

\* The connection to the server is lost while the test sleeps: the client
\* goes to reconnect and the server forgets the subscriptions.
NcLost ==
    /\ opc \in {"nap", "settle"}
    /\ nc = "CONNECTED"
    /\ nc' = "RECONNECTING"
    /\ o_known' = {}
    /\ UNCHANGED <<opc, closes, ord_i, o_pending, o_routed, events, o_outcome>>
    /\ UNCHANGED nonOrdVars

\* The client has reconnected and written its subscriptions again.
NcReconnected ==
    /\ opc \in {"nap", "settle"}
    /\ nc = "RECONNECTING"
    /\ nc' = "CONNECTED"
    /\ o_known' = SubjectSet
    /\ UNCHANGED <<opc, closes, ord_i, o_pending, o_routed, events, o_outcome>>
    /\ UNCHANGED nonOrdVars

\* await asyncio.sleep(2.0) is over: the two list comprehensions and the
\* assert that one of them is not empty.
OrderingCollect ==
    /\ opc = "settle"
    /\ o_outcome' =
          IF \E k \in DOMAIN events :
                events[k].event_type \in {"driver_status_changed",
                                          "driver_location_updated"}
          THEN "passed" ELSE "failed"
    /\ opc' = "teardown"
    /\ UNCHANGED <<nc, closes, ord_i, o_known, o_pending, o_routed, events>>
    /\ UNCHANGED nonOrdVars

\* nats_client after its yield: the finally clause.
NcTeardown ==
    /\ opc = "teardown"
    /\ IF is_connected(nc)
       THEN /\ nc' = "CLOSED"
            /\ closes' = closes + 1
            /\ o_known' = {}
       ELSE UNCHANGED <<nc, closes, o_known>>
    /\ opc' = "done"
    /\ UNCHANGED <<ord_i, o_pending, o_routed, events, o_outcome>>
    /\ UNCHANGED nonOrdVars

(***************************************************************************)
(* Fixture factory and action triggers (utils/helpers.py:                  *)
(* generate_test_driver_data, generate_test_location_data,                 *)
(* create_test_driver, update_driver_location, assert_status_code)         *)
(*                                                                         *)
(* One call of a trigger: the payload is generated from the draws of the   *)
(* random source, posted, and the answer of the service, which is the      *)
(* environment, is asserted on. Coordinates are in millionths of a degree.  *)
(***************************************************************************)

Triggers == {"create_test_driver", "update_driver_location"}

\* The status codes the service can answer with.
Statuses == {200, 201, 400, 404, 409, 422, 500}

\* The body of an answer: JSON that passes the assert_*_valid of the trigger,
\* JSON that does not, or text that is not JSON.
Bodies == {"valid", "invalid", "not_json"}

NoResponse == [status |-> 0, body |-> "none"]

NoPayload == [kind |-> "none"]

\* assert_status_code(response, 201) and assert_status_code(response, 200)
ExpectedStatus(t) == IF t = "create_test_driver" THEN 201 ELSE 200

\* fake.random_int(min, max): both ends can be drawn.
random_int(min, max) == {min, min + 1, (min + max) \div 2, max - 1, max}

\* fake.random_int(min=9000000000, max=9999999999), the number kept as its
\* leading five digits and its last five: 90000 00000 .. 99999 99999.
PhoneDrawsHi == random_int(90000, 99999)
PhoneDrawsLo == random_int(0, 99999)

\* fake.latitude() and fake.longitude(): -90 .. 90 and -180 .. 180.
LatitudeDraws ==
    {-90000000, -55755800, -1, 0, 499999, 500000, 89999999, 90000000}
LongitudeDraws ==
    {-180000000, -37617600, -1, 0, 499999, 500000, 179999999, 180000000}

RECURSIVE DecimalDigits(_)
\* str(n) of a natural number, as the sequence of its digits.
DecimalDigits(n) ==
    IF n < 10 THEN <<n>> ELSE Append(DecimalDigits(n \div 10), n % 10)

\* The last five digits of a number, zeros included.
LastFive(n) ==
    <<(n \div 10000) % 10, (n \div 1000) % 10, (n \div 100) % 10,
      (n \div 10) % 10, n % 10>>

\* f"+7{fake.random_int(...)}"
FormatPhone(hi, lo) == [prefix |-> "+7", digits |-> DecimalDigits(hi) \o LastFive(lo)]

\* A normalisation without the % 1.0.
WholeDegrees(x) == x

\* float(latitude) % 1.0: the result has the sign of the divisor.
FractionOfDegree(x) == x % 1000000

\* base + (float(x) % 1.0 - 0.5) * 0.5, then round(., 6): the values the
\* rounding can give, both neighbours on a tie.
AroundBase(base, x) ==
    LET twice == 2 * base + (FractionOfDegree(x) - 500000)
    IN  {twice \div 2, (twice + 1) \div 2}

\* generate_test_driver_data(): the phone; the other fields do not depend on
\* anything the claims are about.
generate_test_driver_data(hi, lo) ==
    [kind |-> "driver", phone |-> FormatPhone(hi, lo)]

\* generate_test_location_data() with no arguments.
generate_test_location_data(la, lo, acc, spd, brg) ==
    [kind |-> "location", latitude |-> la, longitude |-> lo, accuracy |-> acc,
     speed |-> spd, bearing |-> brg]

\* The draws one call consumes.
DriverDraws ==
    {[kind |-> "driver", hi |-> h, lo |-> l] : h \in PhoneDrawsHi, l \in PhoneDrawsLo}

LocationDraws ==
    {[kind |-> "location", latitude |-> la, longitude |-> lo, accuracy |-> a,
      speed |-> s, bearing |-> b] :
        la \in LatitudeDraws, lo \in LongitudeDraws,
        a \in {1, 10}, s \in {0, 80}, b \in {0, 359}}

\* An answer is followed by another request when the service failed.
RetryOnServerError(status) == IF status >= 500 THEN "post" ELSE "assert_status"

\* What follows the answer of the POST: assert_status_code, whatever the
\* status.
AfterAnswer(status) == "assert_status"

InitTrigger ==
    /\ trigger \in Triggers
    /\ draw \in (IF trigger = "create_test_driver"
                 THEN DriverDraws
                 ELSE LocationDraws \cup {[kind |-> "given"]})
    /\ t_pc = "generate"
    /\ payload = NoPayload
    /\ response = NoResponse
    /\ t_posts = 0
    /\ t_out = [kind |-> "none", value |-> "none"]

IdleTrigger ==
    /\ trigger = "create_test_driver"
    /\ draw = [kind |-> "none"]
    /\ t_pc = "done"
    /\ payload = NoPayload
    /\ response = NoResponse
    /\ t_posts = 0
    /\ t_out = [kind |-> "none", value |-> "none"]

\* driver_data = generate_test_driver_data()
GenerateDriver ==
    /\ t_pc = "generate"
    /\ trigger = "create_test_driver"
    /\ payload' = generate_test_driver_data(draw.hi, draw.lo)
    /\ t_pc' = "post"
    /\ UNCHANGED <<trigger, draw, response, t_posts, t_out>>
    /\ UNCHANGED nonTrigVars

\* if location_data is None: location_data = generate_test_location_data();
\* a payload the caller passed is posted as it is.
GenerateLocation ==
    /\ t_pc = "generate"
    /\ trigger = "update_driver_location"
    /\ IF draw.kind = "given"
       THEN payload' = [kind |-> "given"]
       ELSE \E la \in AroundBase(55755800, draw.latitude),
               lo \in AroundBase(37617600, draw.longitude) :
               payload' = generate_test_location_data(la, lo, draw.accuracy,
                                                      draw.speed, draw.bearing)
    /\ t_pc' = "post"
    /\ UNCHANGED <<trigger, draw, response, t_posts, t_out>>
    /\ UNCHANGED nonTrigVars

\* response = http_client.post(url, json=...): one request; the service
\* answers with any status and body.
TriggerPost ==
    /\ t_pc = "post"
    /\ t_posts' = t_posts + 1
    /\ \E s \in Statuses, b \in Bodies :
          /\ response' = [status |-> s, body |-> b]
          /\ t_pc' = AfterAnswer(s)
    /\ UNCHANGED <<trigger, draw, payload, t_out>>
    /\ UNCHANGED nonTrigVars

\* assert_status_code(response, expected): an AssertionError whose message
\* carries the status and the decoded error details, or nothing.
TriggerAssertStatus ==
    /\ t_pc = "assert_status"
    /\ IF response.status # ExpectedStatus(trigger)
       THEN /\ t_out' = [kind |-> "raised", value |-> "AssertionError"]
            /\ t_pc' = "done"
       ELSE /\ t_pc' = "decode"
            /\ UNCHANGED t_out
    /\ UNCHANGED <<trigger, draw, payload, response, t_posts>>
    /\ UNCHANGED nonTrigVars

\* response.json(), the assert_*_valid on it, and the return of the decoded
\* answer.
TriggerDecodeAndValidate ==
    /\ t_pc = "decode"
    /\ t_out' =
          CASE response.body = "not_json" -> [kind |-> "raised", value |-> "JSONDecodeError"]
            [] response.body = "invalid"  -> [kind |-> "raised", value |-> "AssertionError"]
            [] OTHER                      -> [kind |-> "returned", value |-> "decoded"]
    /\ t_pc' = "done"
    /\ UNCHANGED <<trigger, draw, payload, response, t_posts>>
    /\ UNCHANGED nonTrigVars

(***************************************************************************)
(* The location payload generators called with arguments                   *)
(* (utils/helpers.py: generate_test_location_data(latitude, longitude,     *)
(* **kwargs) and generate_batch_location_data(count, **kwargs))            *)
(*                                                                         *)
(* One call of a generator: its keyword arguments and the draws of the     *)
(* random source are the inputs, the clock is the environment. A keyword   *)
(* argument of None is an absent one. The coordinates a caller passes are   *)
(* in ten-millionths of a degree, the generated ones in millionths.         *)
(***************************************************************************)

\* The largest count a batch is asked for.
MaxCount == 3

Generators == {"generate_test_location_data", "generate_batch_location_data"}

\* The keyword arguments a caller passes (none, one, two or all of them), and
\* the values it passes for them: none of the values is one the generator
\* produces itself.
KeywordNames == {"latitude", "longitude", "altitude", "speed", "accuracy",
                 "bearing", "timestamp"}

KeywordValues(k) ==
    CASE k = "latitude"  -> {557558004, 557558005}
      [] k = "longitude" -> {376176016}
      [] k = "altitude"  -> {150}
      [] k = "speed"     -> {120}
      [] k = "accuracy"  -> {50}
      [] k = "bearing"   -> {400}
      [] OTHER           -> {5}

KeywordArgs ==
    {[k \in K |-> IF k = "latitude" THEN la
                  ELSE CHOOSE v \in KeywordValues(k) : TRUE] :
        K \in {S \in SUBSET KeywordNames : Cardinality(S) <= 2 \/ S = KeywordNames},
        la \in KeywordValues("latitude")}

\* The draws one generated element consumes.
ElementDraws ==
    {[latitude |-> 499999, longitude |-> -1, accuracy |-> 1, speed |-> 80,
      bearing |-> 0],
     [latitude |-> 90000000, longitude |-> 500000, accuracy |-> 10, speed |-> 0,
      bearing |-> 359]}

\* round(x, 6) of a coordinate given in ten-millionths of a degree: the
\* values the rounding can give, both neighbours on a tie.
round6(x) ==
    IF x % 10 = 5 THEN {x \div 10, x \div 10 + 1}
    ELSE {(x + 5) \div 10}

\* latitude and longitude of the payload: round(latitude, 6) of the argument,
\* or of the normalised draw if there is none.
LatitudeOf(kwargs, d) ==
    IF "latitude" \in DOMAIN kwargs THEN round6(kwargs["latitude"])
    ELSE AroundBase(55755800, d.latitude)

LongitudeOf(kwargs, d) ==
    IF "longitude" \in DOMAIN kwargs THEN round6(kwargs["longitude"])
    ELSE AroundBase(37617600, d.longitude)

\* The dict literal of generate_test_location_data.
LocationDict(la, lo, d, t) ==
    [f \in {"latitude", "longitude", "accuracy", "speed", "bearing", "timestamp"} |->
        CASE f = "latitude"  -> la
          [] f = "longitude" -> lo
          [] f = "accuracy"  -> d.accuracy
          [] f = "speed"     -> d.speed
          [] f = "bearing"   -> d.bearing
          [] OTHER           -> t]

\* data with data[k] = v.
SetItem(data, k, v) ==
    [f \in DOMAIN data \cup {k} |-> IF f = k THEN v ELSE data[f]]

RECURSIVE UpdateFrom(_, _)
\* A generator that copies every keyword argument into the payload.
UpdateFrom(data, kwargs) ==
    IF DOMAIN kwargs = {} THEN data
    ELSE LET k == CHOOSE x \in DOMAIN kwargs : TRUE
         IN  UpdateFrom(SetItem(data, k, kwargs[k]),
                        [x \in DOMAIN kwargs \ {k} |-> kwargs[x]])

\* if "altitude" in kwargs: data["altitude"] = kwargs["altitude"]
AddOptionalFields(data, kwargs) ==
    IF "altitude" \in DOMAIN kwargs
    THEN SetItem(data, "altitude", kwargs["altitude"])
    ELSE data

\* generate_test_location_data(**kwargs) at second t of the clock: the
\* payloads it can return.
LocationPayloads(kwargs, d, t) ==
    {AddOptionalFields(LocationDict(la, lo, d, t), kwargs) :
        la \in LatitudeOf(kwargs, d), lo \in LongitudeOf(kwargs, d)}

\* A batch whose timestamps start at the time of the call.
BaseTimeNow(t, count) == t

\* base_time = int(time.time()) - count * 10
BaseTime(t, count) == t - count * 10

\* location["timestamp"] = base_time + i * 10
Restamp(location, base, i) ==
    SetItem(location, "timestamp", base + i * 10)

InitBatch ==
    /\ generator \in Generators
    /\ b_count \in (IF generator = "generate_batch_location_data"
                    THEN 0 .. MaxCount ELSE {1})
    /\ b_kwargs \in KeywordArgs
    /\ b_draws \in SeqsOfLen(ElementDraws, b_count)
    /\ b_pc = "call"
    /\ b_clock = 1000
    /\ b_called_at = 0
    /\ base_time = 0
    /\ b_i = 0
    /\ locations = <<>>

IdleBatch ==
    /\ generator = "generate_test_location_data"
    /\ b_count = 0
    /\ b_kwargs = <<>>
    /\ b_draws = <<>>
    /\ b_pc = "returned"
    /\ b_clock = 0
    /\ b_called_at = 0
    /\ base_time = 0
    /\ b_i = 0
    /\ locations = <<>>

\* One call of generate_test_location_data(**kwargs) by a test.
GenerateOne ==
    /\ b_pc = "call"
    /\ generator = "generate_test_location_data"
    /\ b_called_at' = b_clock
    /\ \E p \in LocationPayloads(b_kwargs, b_draws[1], b_clock) :
          locations' = <<p>>
    /\ b_pc' = "returned"
    /\ UNCHANGED <<generator, b_count, b_kwargs, b_draws, b_clock, base_time, b_i>>
    /\ UNCHANGED nonBatchVars

\* generate_batch_location_data up to its loop: locations = [] and base_time.
BatchStart ==
    /\ b_pc = "call"
    /\ generator = "generate_batch_location_data"
    /\ b_called_at' = b_clock
    /\ base_time' = BaseTime(b_clock, b_count)
    /\ b_i' = 0
    /\ locations' = <<>>
    /\ b_pc' = "loop"
    /\ UNCHANGED <<generator, b_count, b_kwargs, b_draws, b_clock>>
    /\ UNCHANGED nonBatchVars

\* One pass of the loop: the element is generated at the second the clock
\* then shows, its timestamp is replaced, and it is appended.
BatchElement ==
    /\ b_pc = "loop"
    /\ b_i < b_count
    /\ \E t \in {b_clock, b_clock + 1} :
          /\ b_clock' = t
          /\ \E p \in LocationPayloads(b_kwargs, b_draws[b_i + 1], t) :
                locations' = Append(locations, Restamp(p, base_time, b_i))
    /\ b_i' = b_i + 1
    /\ UNCHANGED <<generator, b_count, b_kwargs, b_draws, b_pc, b_called_at,
                   base_time>>
    /\ UNCHANGED nonBatchVars

\* range(count) is exhausted: return locations.
BatchReturn ==
    /\ b_pc = "loop"
    /\ b_i >= b_count
    /\ b_pc' = "returned"
    /\ UNCHANGED <<generator, b_count, b_kwargs, b_draws, b_clock, b_called_at,
                   base_time, b_i, locations>>
    /\ UNCHANGED nonBatchVars

(***************************************************************************)
(* Specifications: one per part of the harness; the other parts are idle.  *)
(***************************************************************************)

InitSpecLedger ==
    InitLedger /\ IdleBus /\ IdleWs /\ IdleSessions /\ IdleProbe /\ IdleGate
    /\ IdleOrdering /\ IdleTrigger /\ IdleBatch

NextLedger ==
    \/ SetupSession
    \/ SetupLedger
    \/ SetupCreatedDriver
    \/ SetupMultipleDrivers
    \/ SetupDriverWithLocation
    \/ BodyDirectPost
    \/ BodyHelperCreate
    \/ BodyDeleteDriver
    \/ BodyDuplicatePost
    \/ BodyEnd
    \/ Teardown
    \/ CleanupConnect
    \/ CleanupExecute
    \/ CleanupCommit

SpecLedger == InitSpecLedger /\ [][NextLedger]_vars

InitSpecCleanup ==
    InitCleanupCall /\ IdleBus /\ IdleWs /\ IdleSessions /\ IdleProbe /\ IdleGate
    /\ IdleOrdering /\ IdleTrigger /\ IdleBatch

NextCleanup ==
    \/ CleanupConnect
    \/ CleanupExecute
    \/ CleanupCommit
    \/ CleanupAgain

SpecCleanup == InitSpecCleanup /\ [][NextCleanup]_vars

InitSpecBus ==
    IdleLedger /\ InitBus /\ IdleWs /\ IdleSessions /\ IdleProbe /\ IdleGate
    /\ IdleOrdering /\ IdleTrigger /\ IdleBatch

NextBus ==
    \/ Subscribe
    \/ FlushStart
    \/ FlushDone
    \/ Publish
    \/ HttpAction
    \/ ServerProcess
    \/ ServicePublish
    \/ ForeignPublish
    \/ Deliver
    \/ Tick
    \/ Collect

SpecBus == InitSpecBus /\ [][NextBus]_vars

InitSpecWs ==
    IdleLedger /\ IdleBus /\ InitWs /\ IdleSessions /\ IdleProbe /\ IdleGate
    /\ IdleOrdering /\ IdleTrigger /\ IdleBatch

NextWs ==
    \/ WsConnect
    \/ CreateCollector
    \/ CollectorStart
    \/ ServerSend
    \/ CollectorRecv
    \/ CollectorTimeout
    \/ WsTick
    \/ Stabilized
    \/ WsPost
    \/ CancelCollector
    \/ ReadMessages

SpecWs == InitSpecWs /\ [][NextWs]_vars

InitSpecSessions ==
    IdleLedger /\ IdleBus /\ IdleWs /\ InitSessions /\ IdleProbe /\ IdleGate
    /\ IdleOrdering /\ IdleTrigger /\ IdleBatch

NextSessions ==
    \/ Connect
    \/ GatherStart
    \/ ConnectResolve
    \/ Connected
    \/ GatherDone
    \/ LimitsBody
    \/ ConcurrentBody
    \/ ConcurrentAssert
    \/ RecoveryBody
    \/ RecoveryAssert
    \/ InvalidSend
    \/ CloseStart
    \/ CloseReturn
    \/ Finally
    \/ RemoteClose
    \/ RemoteDrop
    \/ CloseHandshakeDone

SpecSessions == InitSpecSessions /\ [][NextSessions]_vars

InitSpecProbe ==
    IdleLedger /\ IdleBus /\ IdleWs /\ IdleSessions /\ InitProbe /\ IdleGate
    /\ IdleOrdering /\ IdleTrigger /\ IdleBatch

NextProbe ==
    \/ LoopCheck
    \/ Probe
    \/ Sleep

SpecProbe == InitSpecProbe /\ [][NextProbe]_vars

\* The prober is running code: its next step is taken.
SpecProbeLive == SpecProbe /\ WF_vars(NextProbe)

InitSpecGate ==
    IdleLedger /\ IdleBus /\ IdleWs /\ IdleSessions /\ IdleProbe /\ InitGate
    /\ IdleOrdering /\ IdleTrigger /\ IdleBatch

NextGate ==
    \/ wait_for_services
    \/ http_client
    \/ UnitSetup
    \/ UnitBody
    \/ NextUnit

SpecGate == InitSpecGate /\ [][NextGate]_vars

InitSpecOrdering ==
    IdleLedger /\ IdleBus /\ IdleWs /\ IdleSessions /\ IdleProbe /\ IdleGate
    /\ InitOrdering /\ IdleTrigger /\ IdleBatch

NextOrdering ==
    \/ NcConnect
    \/ OrderingFixture
    \/ OrderingSubscribe
    \/ ServerRegister
    \/ OrderingFlushStart
    \/ OrderingFlushDone
    \/ OrderingAct
    \/ OrderingNapOver
    \/ SubjectPublish
    \/ SubscriptionHandle
    \/ NcLost
    \/ NcReconnected
    \/ OrderingCollect
    \/ NcTeardown

SpecOrdering == InitSpecOrdering /\ [][NextOrdering]_vars

InitSpecTrigger ==
    IdleLedger /\ IdleBus /\ IdleWs /\ IdleSessions /\ IdleProbe /\ IdleGate
    /\ IdleOrdering /\ InitTrigger /\ IdleBatch

NextTrigger ==
    \/ GenerateDriver
    \/ GenerateLocation
    \/ TriggerPost
    \/ TriggerAssertStatus
    \/ TriggerDecodeAndValidate

SpecTrigger == InitSpecTrigger /\ [][NextTrigger]_vars

InitSpecBatch ==
    IdleLedger /\ IdleBus /\ IdleWs /\ IdleSessions /\ IdleProbe /\ IdleGate
    /\ IdleOrdering /\ IdleTrigger /\ InitBatch

NextBatch ==
    \/ GenerateOne
    \/ BatchStart
    \/ BatchElement
    \/ BatchReturn

SpecBatch == InitSpecBatch /\ [][NextBatch]_vars

(***************************************************************************)
(* Claims                                                                  *)
(***************************************************************************)

\* Some failure of cleanup_test_data was logged.
CleanupFailureLogged == \E i \in DOMAIN cleanup_log : cleanup_log[i].level = "error"

\* C1: when the unit has ended, every driver the service confirmed created is
\* either gone from the service or a cleanup failure was reported. Stated for
\* the configuration with cleanup enabled, where it already fails.
C1_NoSilentLeak ==
    (lpc = "done" /\ cleanup_after_test) =>
        \A d \in confirmed : d \notin db["drivers"] \/ CleanupFailureLogged

\* C2: the code after the yield of test_drivers runs exactly once per unit
\* whose ledger was set up, never before the body (or a later fixture's setup)
\* has ended, whether the unit passed, failed or errored; cleanup_test_data is
\* called from it at most once, and once when cleanup is enabled and an id was
\* tracked.
C2_ReleaseExactlyOnce ==
    /\ teardownRuns <= 1
    /\ cleanupCalls <= teardownRuns
    /\ (lpc = "done" /\ ledgerSetUp) => teardownRuns = 1
    /\ (lpc = "done" /\ ledgerSetUp /\ cleanup_after_test /\ driver_ids # <<>>) =>
          cleanupCalls = 1
    /\ lpc \in {"session", "ledger", "fixture", "body", "teardown"} => teardownRuns = 0
    /\ teardownRuns = 1 => outcome \in {"passed", "failed", "error"}

\* C2, its case: a unit whose later fixture or body raised has been released.
C2_ReleasedAfterRaise ==
    /\ lpc = "done"
    /\ ledgerSetUp
    /\ outcome \in {"failed", "error"}
    /\ teardownRuns = 1
    /\ cleanupCalls = 1

\* C3: once the release of a ledger of several drivers has started to delete,
\* every statement is attempted even if one of them failed.
C3_FailureDoesNotStopRest ==
    (lpc = "done" /\ Len(driver_ids) >= 2 /\ attempted # {}) =>
        attempted = DOMAIN Tables

\* C4: after the release has run, no tracked driver is left in the service.
\* Stated for the configuration with cleanup enabled, where it already fails.
C4_TrackedAbsentAfterRelease ==
    (lpc = "done" /\ teardownRuns = 1 /\ cleanup_after_test) =>
        \A d \in Tracked : d \notin db["drivers"]

\* C5: whenever the action of a test has been issued, a flush issued after the
\* subscribe had completed before it.
C5_FlushedBeforeAction == actionStarted => flushedBeforeAction

\* The test has computed its filtered list.
Collected == collectedAt # -1

\* C6: the event the test asserts on is the event of its own driver, and an
\* action whose event the service never published matches nothing.
C6_MatchedByCorrelationKey ==
    (Collected /\ scenario \in EventScenarios) =>
        /\ event # NoEvent => event.driver_id = OwnDriver
        /\ ~ownPublished => matched = <<>>

\* C7: the event the test asserts on was not collected before the action.
C7_NoPreActionMatch ==
    (Collected /\ scenario \in EventScenarios /\ eventIndex > 0) =>
        ~capturedPre[eventIndex]

\* The event of the location action is among the collected events.
OwnLocationCollected ==
    \E i \in DOMAIN received_events :
        /\ IsOwn("location", received_events[i])
        /\ received_events[i].latitude = location_data.latitude
        /\ received_events[i].longitude = location_data.longitude

\* C8: with the subscription flushed before the location action and the one
\* event of the action collected within the window, the test's list holds
\* exactly one event, with the driver id and the coordinates of the action.
C8_ExactlyOneEqualToInput ==
    (Collected /\ scenario = "location" /\ flushedBeforeAction /\ OwnLocationCollected) =>
        /\ Len(matched) = 1
        /\ matched[1].driver_id = OwnDriver
        /\ matched[1].latitude = location_data.latitude
        /\ matched[1].longitude = location_data.longitude

\* C9 as stated: the wait after the action is over as soon as the event of the
\* action has been collected (no tick passes in the sleep after it arrived).
C9_EndsOnFirstMatch ==
    (scenario \in EventScenarios /\ bpc = "sleep" /\ matchTick # -1) =>
        elapsed = matchTick

\* C9 as amended: the wait is the fixed settle delay. It never exceeds the
\* delay, the list is computed exactly when the delay has elapsed whether or
\* not a matching event arrived earlier, the list is the events of the type
\* collected so far, and handlers keep running during the wait.
C9_FixedSettleThenCollect ==
    /\ elapsed <= SettleTicks(scenario)
    /\ Collected => collectedAt = SettleTicks(scenario)
    /\ Collected => matched = FilterByType(received_events, EventTypeOf(scenario))
    /\ (bpc = "sleep" /\ inflight # <<>>) => ENABLED Deliver

\* C9, its case: the event of the action arrived before the delay was over and
\* the test still waited the whole delay before it computed its list.
C9_MatchedEarlyStillWaited ==
    /\ Collected
    /\ scenario \in EventScenarios
    /\ matchTick # -1
    /\ matchTick < collectedAt
    /\ matched # <<>>

\* C10: when the test reads received_messages, every decodable frame the
\* server pushed between the start of the collector and its cancel() is in
\* it, and the collector cannot append while the test reads. Stated for runs
\* in which no frame made the collector raise, where it already fails.
C10_AllWindowFramesCollected ==
    (wpc = "read" /\ collector # "crashed") =>
        /\ \A f \in delivered :
              \E i \in DOMAIN received_messages : received_messages[i] = f
        /\ ~ENABLED CollectorRecv

\* The multi-connection tests.
MultiTests == {"limits", "concurrent"}

\* C11: when a multi-connection test has ended, a connect was started for
\* every one of its targets, whichever of them failed.
C11_FailureDoesNotAbortOthers ==
    (wtest \in MultiTests /\ mpc = "done") =>
        \A i \in 1..TargetsOf(wtest) : attempts[i] = 1

\* C11, as the code has it: in test_websocket_concurrent_connections every
\* target is attempted and gather returns one element per target, the
\* connection of each connect that succeeded and the exception of each that
\* failed; in test_websocket_connection_limits the connections made before the
\* first failure are kept and no connect is started after it.
C11_GatherIsolatesLoopBreaks ==
    /\ (wtest = "concurrent" /\ mpc \notin {"gather", "gathering"}) =>
          /\ \A i \in 1..ConcurrentTargets :
                attempts[i] = 1 /\ conn_state[i] \notin {"NONE", "CONNECTING"}
          /\ Len(connections) = ConcurrentTargets
          /\ \A i \in 1..ConcurrentTargets :
                connections[i] = IF conn_error[i] = "none" THEN Conn(i) ELSE Exc(i)
    /\ (wtest = "limits" /\ mpc \notin {"connect", "connecting"}) =>
          LET n == Len(connections) IN
          /\ \A i \in 1..n :
                connections[i] = Conn(i) /\ conn_error[i] = "none" /\ attempts[i] = 1
          /\ n < max_connections =>
                /\ conn_error[n + 1] # "none"
                /\ attempts[n + 1] = 1
                /\ \A j \in (n + 2)..max_connections :
                      attempts[j] = 0 /\ conn_state[j] = "NONE"

\* C11, its case: gather has returned with one failed connect beside two
\* sessions that opened.
C11_OneFailedTwoOpen ==
    /\ wtest = "concurrent"
    /\ mpc = "body"
    /\ conn_error[1] # "none"
    /\ conn_state[2] = "OPEN"
    /\ conn_state[3] = "OPEN"
    /\ connections = <<Exc(1), Conn(2), Conn(3)>>

\* C12: when the test has ended, no session it opened is still open or
\* closing.
C12_AllClosedAtEnd ==
    mpc = "done" =>
        \A i \in SessionIds : conn_state[i] \in {"NONE", "CLOSED", "FAILED"}

\* The moves of a session.
AllowedMoves ==
    {<<"NONE", "CONNECTING">>, <<"CONNECTING", "OPEN">>, <<"CONNECTING", "FAILED">>,
     <<"OPEN", "CLOSING">>, <<"CLOSING", "CLOSED">>, <<"OPEN", "FAILED">>}

ScenarioCall ==
    /\ prober = "wait_for_service"
    /\ p_timeout = 30
    /\ upAt = 3

C17_ProbesGateAllContacts ==
    \A k \in DOMAIN contacts : contacts[k].ready = "true"

\* Every connect the test started was refused, and it started one.
AllRefused ==
    /\ \E i \in SessionIds : attempts[i] > 0
    /\ \A i \in SessionIds : attempts[i] > 0 => conn_error[i] = "refused"

\* C18: a test whose every connect was refused ends as skipped or failed.
C18_RefusedNeverPasses ==
    (mpc = "done" /\ AllRefused) => mOutcome \in {"skipped", "failed"}

\* C19: every call of a prober returns; it makes at most one probe per
\* second of its timeout, and returns no later than its timeout plus the
\* timeout of one probe and one sleep.
C19_EveryCallReturns ==
    /\ <>(ppc = "returned")
    /\ [](probes <= IF p_timeout > 0 THEN p_timeout ELSE 0)
    /\ [](now <= p_timeout + ProbeTimeoutOf(prober) + PollInterval)
    /\ [](now < ClockCap)

\* C19, its case: a call against a dependency that never came up and left
\* probes unanswered has returned False.
C19_ReturnedFalseNeverUp ==
    /\ upAt = NeverUp
    /\ p_timeout > 0
    /\ blocked
    /\ p_result = "false"

\* A message that decodes is appended by the handler of the event tests.
DecodableAppended ==
    (/\ scenario \in EventScenarios
     /\ inflight # <<>>
     /\ inflight' = Tail(inflight)
     /\ Head(inflight).kind = "json") =>
        received_events' = Append(received_events, Head(inflight))

\* C20: no exception leaves the event handler, whatever the payload, and
\* every message that decodes is appended, also after one that does not.
C20_UndecodableDroppedNotRaised ==
    [](handler_errors = <<>>) /\ [][DecodableAppended]_vars

\* The collector takes a frame that is not JSON off the session.
TakesMalformedFrame ==
    /\ collector = "waiting"
    /\ wsbuf # <<>>
    /\ Head(wsbuf).type = "malformed"
    /\ wsbuf' = Tail(wsbuf)

\* C21: a frame that is not JSON is dropped by message_collector and does not
\* end the collection: the list is left as it was and the collector goes on
\* to its next wait.
C21_MalformedFrameDropped ==
    [][TakesMalformedFrame =>
          received_messages' = received_messages /\ collector' = "waiting"]_vars

\* The release of the ledger is running: the code after the yield of
\* test_drivers, or cleanup_test_data.
Releasing == lpc \in {"teardown", "connect", "execute", "commit"}

\* C22: the release never changes the outcome the unit had when its body (or
\* a later fixture's setup) ended, and a call of cleanup_test_data that has
\* returned has logged either its success or its failure.
C22_CleanupFailureNeverRaised ==
    /\ [][Releasing => outcome' = outcome]_vars
    /\ [](lpc = "done" /\ cleanupCalls = 1 =>
             /\ cleanup_log # <<>>
             /\ Len(cleanup_log) = 1)

\* C22, its case: a DELETE failed in the release of a unit that had passed;
\* the failure is logged and the unit is still passed.
C22_PassedAfterFailedDelete ==
    /\ lpc = "done"
    /\ outcome = "passed"
    /\ cleanupCalls = 1
    /\ cleanup_log = <<[level |-> "error", at |-> "driver_locations"]>>

\* The release removes the driver d from the service in this step.
RemovedInRelease(d) ==
    /\ Releasing
    /\ d \in db["drivers"]
    /\ d \notin db'["drivers"]

\* C23: of two tracked drivers, the one tracked later is removed before the
\* one tracked earlier: when the release removes a driver, every driver
\* tracked after it is already gone.
C23_LastTrackedFirst ==
    [][\A i, j \in DOMAIN driver_ids :
          (i < j /\ RemovedInRelease(driver_ids[i])) =>
              driver_ids[j] \notin db["drivers"]]_vars

Decodable(q) == SelectSeq(q, LAMBDA m : m.kind \notin Undecodable)

\* The collected events that came on subject s.
OfSubject(evs, s) == SelectSeq(evs, LAMBDA e : e.subject = s)

\* C25: for each of the two subjects, the collected events of the subject
\* followed by the decodable messages still pending on its subscription are
\* the decodable messages the bus delivered on it, in delivery order: every
\* one once, none lost to a message of the other subject.
C25_SubscriptionsIndependent ==
    \A s \in SubjectSet :
        OfSubject(events, s) \o Decodable(o_pending[s]) = Decodable(o_routed[s])

\* C25, its case: events of the two subjects were collected interleaved, the
\* later-subscribed subject first, with a message that does not decode
\* delivered among them.
C25_InterleavedCollected ==
    /\ Len(events) = 3
    /\ events[1].subject = "driver.location.updated"
    /\ events[2].subject = "driver.status.changed"
    /\ events[3].subject = "driver.location.updated"
    /\ \E s \in SubjectSet : \E k \in DOMAIN o_routed[s] :
          o_routed[s][k].kind = "malformed"

ObtainedConnection == o_outcome # "skipped" /\ opc # "connect"

\* C27: when a unit that obtained a connection has ended, passed or failed,
\* nc.close() was called exactly once and the connection is closed; no
\* handler appends to the collected list once the connection is closed.
C27_ClosedOnceAtTeardown ==
    /\ [](opc = "done" /\ ObtainedConnection => closes = 1 /\ nc = "CLOSED")
    /\ [][nc = "CLOSED" => events' = events]_vars

\* C28: a call of a trigger issues exactly one POST: none before the payload
\* is built, one by the time the answer is looked at, and never a second,
\* whatever the status of the answer.
C28_ExactlyOnePost ==
    /\ t_posts <= 1
    /\ t_pc \in {"generate", "post"} => t_posts = 0
    /\ t_pc \in {"assert_status", "decode"} => t_posts = 1
    /\ t_out.kind # "none" => t_posts = 1

\* C28, its case: the service answered 500 and the call has ended after its
\* one request.
C28_OnePostOnServerError ==
    /\ t_pc = "done"
    /\ response.status = 500
    /\ t_posts = 1
    /\ t_out.kind = "raised"

\* C29: a call that the service answered with a status other than the
\* expected one returns the answer to its caller and raises nothing.
C29_RawOutcomeSurfaced ==
    (t_pc = "done" /\ t_posts = 1 /\ response.status # ExpectedStatus(trigger)) =>
        t_out.kind = "returned"

\* ^\+7\d{10}$
PhoneValid(p) ==
    /\ p.prefix = "+7"
    /\ Len(p.digits) = 10
    /\ \A k \in DOMAIN p.digits : p.digits[k] \in 0..9

\* C30: a generated driver payload has a phone of '+7' and ten digits; a
\* generated location payload has its latitude in [-90, 90], its longitude
\* in [-180, 180], accuracy and speed not negative and 0 <= bearing < 360.
C30_GeneratedPayloadValid ==
    /\ payload.kind = "driver" => PhoneValid(payload.phone)
    /\ payload.kind = "location" =>
          /\ payload.latitude >= -90000000 /\ payload.latitude <= 90000000
          /\ payload.longitude >= -180000000 /\ payload.longitude <= 180000000
          /\ payload.accuracy >= 0
          /\ payload.speed >= 0
          /\ payload.bearing >= 0 /\ payload.bearing < 360

\* C30, its case: the random source drew the latitude 90 and the longitude
\* -180, and the payload has 55.5058 and 37.3676, with the largest bearing.
C30_ExtremeDrawsNormalised ==
    /\ payload.kind = "location"
    /\ draw.latitude = 90000000
    /\ draw.longitude = -180000000
    /\ payload.latitude = 55505800
    /\ payload.longitude = 37367600
    /\ payload.bearing = 359


\* A call of generate_batch_location_data has returned.
BatchReturned ==
    generator = "generate_batch_location_data" /\ b_pc = "returned"

\* C31: generate_batch_location_data(count) returns exactly count payloads;
\* each timestamp is 10 seconds after the one before it in the list, all of
\* them are earlier than the time of the call, and for count = 0 the list is
\* empty.
C31_BatchTimestampsSpaced ==
    BatchReturned =>
        /\ Len(locations) = b_count
        /\ \A k \in 1 .. Len(locations) - 1 :
              locations[k + 1]["timestamp"] = locations[k]["timestamp"] + 10
        /\ \A k \in DOMAIN locations : locations[k]["timestamp"] < b_called_at
        /\ (b_count = 0 => locations = <<>>)

\* C31: a batch of the largest count has returned; the clock moved on while
\* it was built and the caller passed a timestamp of its own.
C31_FullBatchOverMovingClock ==
    /\ BatchReturned
    /\ b_count = MaxCount
    /\ Len(locations) = MaxCount
    /\ b_clock > b_called_at
    /\ "timestamp" \in DOMAIN b_kwargs

\* C38: of the keyword arguments, latitude and longitude are in the payload
\* rounded to 6 decimals (at most half a millionth of a degree from what was
\* passed) and altitude as it was passed; speed, accuracy,
\* bearing and timestamp are ignored, the payload has the generated values;
\* and every element of a batch has the timestamp the batch gives it.
C38_OnlyNamedOverridesPassed ==
    b_pc = "returned" =>
        \A k \in DOMAIN locations :
            LET e == locations[k]
                d == b_draws[k]
            IN  /\ "latitude" \in DOMAIN b_kwargs =>
                      /\ e["latitude"] >= (b_kwargs["latitude"] + 4) \div 10
                      /\ e["latitude"] <= (b_kwargs["latitude"] + 5) \div 10
                /\ "longitude" \in DOMAIN b_kwargs =>
                      /\ e["longitude"] >= (b_kwargs["longitude"] + 4) \div 10
                      /\ e["longitude"] <= (b_kwargs["longitude"] + 5) \div 10
                /\ ("altitude" \in DOMAIN e) <=> ("altitude" \in DOMAIN b_kwargs)
                /\ "altitude" \in DOMAIN e => e["altitude"] = b_kwargs["altitude"]
                /\ DOMAIN e \subseteq
                      {"latitude", "longitude", "accuracy", "speed", "bearing",
                       "timestamp", "altitude"}
                /\ e["speed"] = d.speed
                /\ e["accuracy"] = d.accuracy
                /\ e["bearing"] = d.bearing
                /\ e["timestamp"] =
                      IF generator = "generate_batch_location_data"
                      THEN base_time + (k - 1) * 10
                      ELSE b_called_at

\* C38: a batch of two or more has returned for a caller that passed every
\* keyword argument, a latitude that needs rounding among them.
C38_AllOverridesGiven ==
    /\ BatchReturned
    /\ Len(locations) >= 2
    /\ DOMAIN b_kwargs = KeywordNames
    /\ b_kwargs["latitude"] % 10 # 0
    /\ locations[1]["speed"] # b_kwargs["speed"]
    /\ locations[2]["timestamp"] # b_kwargs["timestamp"]
    /\ locations[2]["altitude"] = b_kwargs["altitude"]


\* The latest line cleanup_test_data logged has the given level.
LastCleanupLog(log, level) == log # <<>> /\ log[Len(log)].level = level

\* The rows d without the rows of every listed driver in all five tables;
\* with no list, without the rows of every driver that has a row in drivers.
WithoutRowsOf(d, ids) ==
    [t \in TableNames |->
        d[t] \ (IF ids # <<>> THEN {ids[i] : i \in DOMAIN ids} ELSE d["drivers"])]

\* A step of cleanup_test_data either leaves the committed rows as they are
\* and logs no success, or it is the commit, logs the success, and removes
\* the rows of the listed drivers (with no list: of every test driver) from
\* all five tables and nothing else.
StepAllOrNothing ==
    lpc \in {"connect", "execute", "commit"} =>
        \/ /\ db' = db
           /\ ~(Len(cleanup_log') > Len(cleanup_log)
                /\ LastCleanupLog(cleanup_log', "info"))
        \/ /\ lpc = "commit"
           /\ Len(cleanup_log') > Len(cleanup_log)
           /\ LastCleanupLog(cleanup_log', "info")
           /\ db' = WithoutRowsOf(db, driver_ids)

\* C32: cleanup_test_data(ids) is all-or-nothing: either the deletes on all
\* five tables succeed and are committed, and then every row of every listed
\* driver is gone, or the connection, a statement or the commit fails, and
\* then nothing is committed: the rows are exactly as before the call.
C32_CleanupAllOrNothing == [][StepAllOrNothing]_vars

\* C32: a call for two drivers failed at its third statement, after the
\* deletes on two tables had returned, and the rows of both drivers are
\* still in those tables.
C32_FailedAfterTwoDeletes ==
    /\ lpc = "done"
    /\ cleanupCalls = 1
    /\ driver_ids = <<2, 1>>
    /\ LastCleanupLog(cleanup_log, "error")
    /\ cleanup_log[Len(cleanup_log)].at = "driver_shifts"
    /\ attempted = {1, 2, 3}
    /\ {1, 2} \subseteq db["driver_ratings"]
    /\ {1, 2} \subseteq db["driver_locations"]


\* The rows of table t as the open transaction of cleanup_test_data sees
\* them: the committed rows without those its statements have deleted.
TransactionView(t) ==
    IF t \in txDone
    THEN db[t] \ (IF driver_ids # <<>> THEN Tracked ELSE db["drivers"])
    ELSE db[t]

DependentTables == TableNames \ {"drivers"}

\* C33: during cleanup_test_data the rows of a driver in driver_ratings,
\* driver_locations, driver_shifts and driver_documents are deleted before
\* its row in drivers, with a list of ids and without: the delete on drivers
\* is the last statement, and in no state of the transaction does a
\* dependent row reference a driver whose row is already deleted.
C33_DependentsDeletedFirst ==
    /\ "drivers" \in txDone => DependentTables \subseteq txDone
    /\ lpc = "execute" /\ Tables[stmt] = "drivers" =>
          attempted = 1 .. Len(Tables) - 1
    /\ \A t \in DependentTables :
          TransactionView(t) \subseteq TransactionView("drivers")

\* C33: a call without a list is at its last statement: the dependent rows
\* of all three drivers are deleted in the transaction, their rows in
\* drivers are not yet.
C33_PurgeBeforeLastStatement ==
    /\ driver_ids = <<>>
    /\ lpc = "execute"
    /\ Tables[stmt] = "drivers"
    /\ txDone = DependentTables
    /\ db["driver_ratings"] = StoredDrivers
    /\ TransactionView("driver_ratings") = {}
    /\ TransactionView("drivers") = StoredDrivers


\* The statement cleanup_test_data is at returns without raising.
StatementReturns == CleanupExecute /\ cleanup_log' = cleanup_log

\* cleanup_test_data has logged a success in an earlier call.
SucceededBefore == \E k \in DOMAIN cleanup_log : cleanup_log[k].level = "info"

\* The commit of a call succeeds: the rows of the listed drivers, and only
\* those, are gone; after an earlier success it changes nothing.
CommitIdempotent ==
    (lpc = "commit" /\ LastCleanupLog(cleanup_log', "info")
        /\ Len(cleanup_log') > Len(cleanup_log)) =>
        /\ db' = WithoutRowsOf(db, driver_ids)
        /\ SucceededBefore => db' = db

TeardownKeepsRows ==
    (lpc = "teardown" \/ (lpc = "done" /\ cleanupCalls = 0)) => db' = db

ProbeStartsBeforeDeadline == probes' > probes => now < p_timeout

\* C34: a prober starts a probe only while less than timeout has elapsed
\* since the call began, so with timeout <= 0 it returns false without a
\* probe; and the last probe started decides: if it succeeds the call
\* returns true, also when it succeeds after the deadline.
C34_LastStartedProbeDecides ==
    /\ [][ProbeStartsBeforeDeadline]_vars
    /\ [](p_timeout <= 0 => probes = 0 /\ p_result \in {"running", "false"})
    /\ [](p_result = "true" => probes >= 1 /\ last_probe = "success")
    /\ []((ppc = "returned" /\ last_probe = "success") => p_result = "true")

\* C34: a call returned true on a probe that succeeded after the deadline.
C34_SucceededAfterDeadline ==
    /\ p_timeout > 0
    /\ p_result = "true"
    /\ last_probe = "success"
    /\ now > p_timeout


\* The probers of wait_for_services are not called again once they were.
ProbesNotRepeated == g_probes # <<>> => g_probes' = g_probes

\* C35: within one session the readiness probes run at most once and in a
\* fixed order, PostgreSQL first and the HTTP service second; the HTTP probe
\* is not started when the PostgreSQL probe returned false; the shared
\* http_client is created only after both returned true, and it is closed
\* exactly once, at the end of the session.
C35_ProbesOnceInOrderClientClosedOnce ==
    /\ [][ProbesNotRepeated]_vars
    /\ [](/\ Len(g_probes) <= 2
          /\ g_probes # <<>> => g_probes[1].prober = "wait_for_postgres"
          /\ Len(g_probes) = 2 =>
                g_probes[2].prober = "wait_for_service" /\ g_probes[1].result)
    /\ [](http_session # "none" =>
             Len(g_probes) = 2 /\ g_probes[1].result /\ g_probes[2].result)
    /\ [](/\ gpc # "done" => session_closes = 0 /\ http_session # "closed"
          /\ gpc = "done" =>
                \/ http_session = "closed" /\ session_closes = 1
                \/ http_session = "none" /\ session_closes = 0)

\* C35: a session of two units that both request http_client is over: the
\* two probers were called once, for the first unit, and the session the
\* units shared is closed.
C35_SharedClientClosedAtSessionEnd ==
    /\ gpc = "done"
    /\ \A k \in DOMAIN g_units : RequestsHttpClient(g_units[k])
    /\ Len(g_units) >= 2
    /\ Len(g_probes) = 2
    /\ http_session = "closed"
    /\ session_closes = 1
    /\ \A k \in DOMAIN contacts : contacts[k].ready = "true"

====
